---- MODULE Spec2Model ----
(***************************************************************************)
(* Model of the bidirectional payment channel of libbolt                   *)
(* (src/src/lib.rs, mod bidirectional) with the proof helpers of           *)
(* src/src/clproto.rs.                                                     *)
(*                                                                         *)
(* Group elements of G2 that the protocol builds as products of the public *)
(* bases (g2, Z2[0..3]) are modelled by their exponent vectors: a tuple of *)
(* NumBases integers.  Hashes into Fr are injective oracles with disjoint  *)
(* ranges.  Signatures and proofs of knowledge are symbolic: they carry    *)
(* what was signed or proven and verification compares it.                 *)
(***************************************************************************)
EXTENDS Integers, Sequences, FiniteSets, TLC

----------------------------------------------------------------------------
(* Bounds of the model *)

\* wallet key pairs the customer may generate (init_customer uses the first)
MaxKeys == 3
\* larger of the two initial balances of the customer that are tried
MaxB0Cust == 2
\* larger of the two initial balances of the merchant that are tried
MaxB0Merch == 1
\* largest |epsilon| of an in-range payment that is tried
MaxEps == 1
\* largest per-payment channel fee
MaxFee == 1

(* Program constants *)
E_MAX == 255
L == 4
RANGE_PROOF_BITS == 32

\* identities of the long-lived CL key pairs (bidirectional::keygen)
MerchKeys == "merch_keys"
CustKeys == "cust_keys"

B0CustValues == {1, MaxB0Cust}
B0MerchValues == {0, MaxB0Merch}
FeeValues == 0..MaxFee
\* payment increments tried, of both signs
EpsValues == (0 - MaxEps)..MaxEps

----------------------------------------------------------------------------
(* Option<T> *)

None == <<>>
Some(x) == <<x>>
IsNone(o) == Len(o) = 0
Unwrap(o) == o[1]

----------------------------------------------------------------------------
(* Hashes and conversions into Fr *)

\* Fr::from_str(value) for positive values, the negation of -value otherwise
convert_int_to_fr(value) == IF value > 0 THEN value ELSE 0 - (value * (0 - 1))

\* SHA-512 of the serialized key interpreted in Fr
hash_pub_key_to_fr(wpk) == 1000 + wpk

\* first 16 bytes of SHA-512 of the serialized key, in hex
compute_pub_key_fingerprint(wpk) == <<"fp16", wpk>>

\* SHA-512 of the bytes of a string interpreted in Fr
convert_str_to_fr(s) ==
  CASE s = "refund" -> 2001
    [] s = "refundUnsigned" -> 2002
    [] s = "refundToken" -> 2003
    [] s = "revoked" -> 2004
    [] OTHER -> 2000

\* convert_to_fr of the hex string of a balance (RefundMessage::hash)
convert_hex_balance_to_fr(balance) == 3000 + balance

\* hash_buffer_to_fr(prefix, compact signature bytes)
hash_buffer_to_fr(prefix, sig) == 5000 + (100 * sig.signer) + (sig.msg - 6000)

\* RevokedMessage::hash_to_slice: SHA-512 of msgtype || wpk, first 32 bytes
hash_to_slice(rm) == IF rm.msgtype = "revoked" THEN 6000 + rm.wpk ELSE 7000 + rm.wpk

\* ChannelState::generate_channel_id: SHA-512 of the encoded public key
generate_channel_id(pk) == IF pk = MerchKeys THEN 4001 ELSE 4002

----------------------------------------------------------------------------
(* G2 elements as exponent vectors over pub_bases = (g2, Z2[0], .., Z2[3]) *)

NumBases == L + 1

\* sum over i of pub_bases[i] * x[i]
VecOf(x) == [i \in 1..NumBases |-> IF i <= Len(x) THEN x[i] ELSE 0]
GAdd(a, b) == [i \in 1..NumBases |-> a[i] + b[i]]
GSub(a, b) == [i \in 1..NumBases |-> a[i] - b[i]]
\* pub_bases[idx] * k, idx counted from 0 as in the source
BaseMul(idx, k) == [i \in 1..NumBases |-> IF i = idx + 1 THEN k ELSE 0]

\* commit_scheme::commit: pub_bases[0]*r + sum_{i>=1} pub_bases[i]*x[i]
commit(x, r) ==
  [c |-> [i \in 1..NumBases |-> IF i = 1 THEN r ELSE IF i <= Len(x) THEN x[i] ELSE 0],
   r |-> r]

\* commit_scheme::decommit: recompute from cm.r and x, compare with cm.c
decommit(cm, x) ==
  [i \in 1..NumBases |-> IF i = 1 THEN cm.r ELSE IF i <= Len(x) THEN x[i] ELSE 0] = cm.c

----------------------------------------------------------------------------
(* clproto.rs: proofs of knowledge and blind signatures *)

\* PoK of the opening of C: s[i] = x[i]*c + t[i], T = sum pub_bases[i]*t[i];
\* the record keeps the witness the responses were computed from
bs_gen_nizk_proof(x, C) == [C |-> C, x |-> x, num_secrets |-> Len(x)]

\* sum pub_bases[i]*s[i] = C*c + T  iff  sum pub_bases[i]*x[i] = C
bs_verify_nizk_proof(proof) == VecOf(proof.x) = proof.C

\* CL signature on the committed vector m under secret key sk
bs_compute_blind_signature(sk, m, num_secrets) ==
  [signer |-> sk, m |-> m, blinded |-> FALSE]

\* rerandomized copy of a signature
prover_generate_blinded_sig(sig) == [sig EXCEPT !.blinded = TRUE]

\* pairings of pk.X with the signature's a, b, B[i] and of g1 with c
gen_common_params(pk, sig) == [pk |-> pk, sig |-> sig]

\* PoK of a signature on x: bases from the common params, A = vs
vs_gen_nizk_proof(x, cp) == [x |-> x, cp |-> cp]

\* prod pub_bases[i]^s[i] = A^c * T: the verification equation of cp.sig on x
part1_verify_proof_vs(proof) ==
  /\ proof.cp.sig.signer = proof.cp.pk
  /\ proof.cp.sig.m = VecOf(proof.x)

\* the sigma proof and the three pairing equations on the blinded signature
vs_verify_blind_sig(pk, proof, sig) ==
  /\ part1_verify_proof_vs(proof)
  /\ sig.signer = pk

\* clsigs::verify_d: sig is a signature under pk on the message vector x
verify_d(pk, x, sig) ==
  /\ sig.signer = pk
  /\ sig.m = VecOf(x)

\* clsigs::sign_d: signature under sk on the message vector m
sign_d(sk, m) == [signer |-> sk, m |-> VecOf(m), blinded |-> FALSE]

\* bulletproofs RangeProof::prove_single on value with n bits
range_prove(value) == [value |-> value]
\* RangeProof::verify_single: the committed value lies in [0, 2^n)
range_verify(proof) ==
  proof.value >= 0 /\ (proof.value \div 4) < 2 ^ (RANGE_PROOF_BITS - 2)

\* secp256k1 sign / verify
secp_sign(msg, wsk) == [signer |-> wsk, msg |-> msg]
secp_verify(msg, sig, wpk) == sig.signer = wpk /\ sig.msg = msg

----------------------------------------------------------------------------
(* State *)

VARIABLES
  pp,             \* PublicParams: extra_verify
  channel,        \* ChannelState shared with the merchant
  m_data,         \* InitMerchantData (Option)
  c_data,         \* InitCustomerData stored by the customer (Option)
  c_rt,           \* refund token the customer holds for the stored wallet (Option)
  retired,        \* earlier (InitCustomerData, refund token) pairs the customer kept
  pc,             \* position in the protocol
  old_w,          \* Pay round: old wallet handed to pay_by_customer_phase1 (Option)
  new_t,          \* Pay round: new channel token (Option)
  new_w,          \* Pay round: new wallet (Option)
  pay_proof,      \* Pay round: PaymentProof sent to the merchant (Option)
  rt_w,           \* Pay round: refund token returned by the merchant (Option)
  rv_w,           \* Pay round: RevokeToken sent by the customer (Option)
  new_wallet_sig, \* Pay round: signature on the new wallet (Option)
  eps,            \* Pay round: the balance_increment the customer asked for
  closing,        \* (InitCustomerData, refund token) pair the customer closes with (Option)
  rc_c,           \* ChannelclosureC (Option)
  rc_m,           \* ChannelclosureM (Option)
  nextKey,        \* next fresh wallet key pair / commitment randomness
  out,            \* the last call: operation, arguments, success, return value
  b0,             \* balances agreed at opening
  paid,           \* increments of the Pay rounds completed so far
  rt_log,         \* wpk of every proof pay_by_merchant_phase1 has answered with a refund token
  sig_log,        \* wpk of every proof pay_by_merchant_phase2 has answered with a signature
  deviated        \* TRUE once the customer has left the honest protocol

vars == <<pp, channel, m_data, c_data, c_rt, retired, pc, old_w, new_t, new_w,
          pay_proof, rt_w, rv_w, new_wallet_sig, eps, closing, rc_c, rc_m, nextKey,
          out, b0, paid, rt_log, sig_log, deviated>>

round == <<old_w, new_t, new_w, pay_proof, rt_w, rv_w, new_wallet_sig, eps>>
close == <<closing, rc_c, rc_m>>
history == <<b0, paid, rt_log, sig_log, deviated>>

Range(s) == {s[i] : i \in DOMAIN s}

Call(op, arg, ok, ret) == [op |-> op, arg |-> arg, ok |-> ok, ret |-> ret]

\* ChannelState::new
ChannelStateNew(third_party_support) ==
  [keys |-> <<>>, R |-> 0, tx_fee |-> 0, cid |-> 0, pay_init |-> FALSE,
   channel_established |-> FALSE, third_party |-> third_party_support]

\* HashMap::insert
MapInsert(map, k, v) == [g \in (DOMAIN map) \cup {k} |-> IF g = k THEN v ELSE map[g]]

Init ==
  /\ pp = [extra_verify |-> TRUE]
  /\ channel \in {ChannelStateNew(tp) : tp \in BOOLEAN}
  /\ m_data = None
  /\ c_data = None
  /\ c_rt = None
  /\ retired = {}
  /\ pc = "new"
  /\ old_w = None /\ new_t = None /\ new_w = None /\ pay_proof = None
  /\ rt_w = None /\ rv_w = None /\ new_wallet_sig = None
  /\ eps = 0
  /\ closing = None /\ rc_c = None /\ rc_m = None
  /\ nextKey = 1
  /\ out = Call("new", <<>>, TRUE, <<>>)
  /\ b0 = [cust |-> 0, merch |-> 0]
  /\ paid = <<>>
  /\ rt_log = <<>>
  /\ sig_log = <<>>
  /\ deviated = FALSE

----------------------------------------------------------------------------
(* Channel setup and the Establish protocol *)

\* ChannelState::set_channel_fee
SetChannelFee(fee) ==
  /\ pc = "new"
  /\ channel.tx_fee # fee
  /\ channel' = [channel EXCEPT !.tx_fee = fee]
  /\ out' = Call("set_channel_fee", [fee |-> fee], TRUE, <<>>)
  /\ UNCHANGED <<pp, m_data, c_data, c_rt, retired, pc, nextKey, round, close, history>>

\* init_merchant(pp, b0_merchant, keypair)
InitMerchant(b0_merchant) ==
  /\ pc = "new"
  /\ b0_merchant >= 0
  /\ m_data' = Some([channel_token |-> MerchKeys,
                     csk |-> [sk |-> MerchKeys, balance |-> b0_merchant]])
  /\ b0' = [b0 EXCEPT !.merch = b0_merchant]
  /\ pc' = "merch_init"
  /\ out' = Call("init_merchant", [b0_merchant |-> b0_merchant], TRUE, <<>>)
  /\ UNCHANGED <<pp, channel, c_data, c_rt, retired, nextKey, round, close,
                 paid, rt_log, sig_log, deviated>>

\* variant: the channel id is taken from the merchant's public key
init_customer_merchant_cid(chan, b0_customer, b0_merchant, keypair, k) ==
  LET wpk == k
      h_wpk == hash_pub_key_to_fr(wpk)
      b0c == convert_int_to_fr(b0_customer)
      r == k
      cid == generate_channel_id(MerchKeys)
      x == <<r, cid, b0c, h_wpk>>
      w_com == commit(x, r)
  IN [channel_token |-> [w_com |-> w_com, pk |-> keypair,
                         third_party_pay |-> chan.third_party],
      csk |-> [sk |-> keypair, cid |-> cid, wpk |-> wpk, wsk |-> k, h_wpk |-> h_wpk,
               r |-> r, balance |-> b0_customer, merchant_balance |-> b0_merchant,
               proof |-> None, signature |-> None, refund_token |-> None]]

\* the wallet and token built by init_customer
init_customer(chan, b0_customer, b0_merchant, keypair, k) ==
  LET wpk == k
      h_wpk == hash_pub_key_to_fr(wpk)
      b0c == convert_int_to_fr(b0_customer)
      r == k
      cid == generate_channel_id(keypair)
      x == <<r, cid, b0c, h_wpk>>
      w_com == commit(x, r)
  IN [channel_token |-> [w_com |-> w_com, pk |-> keypair,
                         third_party_pay |-> chan.third_party],
      csk |-> [sk |-> keypair, cid |-> cid, wpk |-> wpk, wsk |-> k, h_wpk |-> h_wpk,
               r |-> r, balance |-> b0_customer, merchant_balance |-> b0_merchant,
               proof |-> None, signature |-> None, refund_token |-> None]]

\* init_customer(pp, channel, b0_customer, b0_merchant, cm_csp, keypair)
InitCustomer(b0_customer) ==
  /\ pc = "merch_init"
  /\ b0_customer >= 0
  /\ nextKey <= MaxKeys
  /\ LET b0_merchant == Unwrap(m_data).csk.balance
         d == init_customer(channel, b0_customer, b0_merchant, CustKeys, nextKey)
     IN /\ b0_merchant >= 0
        /\ channel' = [channel EXCEPT !.cid = d.csk.cid]
        /\ c_data' = Some(d)
  /\ nextKey' = nextKey + 1
  /\ b0' = [b0 EXCEPT !.cust = b0_customer]
  /\ pc' = "opening"
  /\ out' = Call("init_customer", [b0_customer |-> b0_customer], TRUE, <<>>)
  /\ UNCHANGED <<pp, m_data, c_rt, retired, round, close, paid, rt_log, sig_log, deviated>>

\* establish_customer_phase1(pp, c_data, pub_bases)
establish_customer_phase1(c) ==
  LET t_c == c.channel_token
      csk_c == c.csk
      x == <<t_c.w_com.r, csk_c.cid, convert_int_to_fr(csk_c.balance), csk_c.h_wpk>>
  IN bs_gen_nizk_proof(x, t_c.w_com.c)

\* bs_check_proof_and_gen_signature(mpk, sk, proof)
bs_check_proof_and_gen_signature(sk, proof) ==
  IF bs_verify_nizk_proof(proof)
  THEN Some(bs_compute_blind_signature(sk, proof.C, proof.num_secrets))
  ELSE None

\* establish_customer_phase1 followed by establish_merchant_phase2
EstablishMerchantPhase2 ==
  /\ pc = "opening"
  /\ LET proof == establish_customer_phase1(Unwrap(c_data))
         wallet_sig == bs_check_proof_and_gen_signature(Unwrap(m_data).csk.sk, proof)
     IN IF IsNone(wallet_sig)
        THEN /\ out' = Call("establish_merchant_phase2", [proof |-> proof], FALSE, None)
             /\ UNCHANGED <<channel, pc, new_wallet_sig>>
        ELSE /\ channel' = [channel EXCEPT !.channel_established = TRUE]
             /\ new_wallet_sig' = wallet_sig
             /\ pc' = "est2"
             /\ out' = Call("establish_merchant_phase2", [proof |-> proof], TRUE, wallet_sig)
  /\ UNCHANGED <<pp, m_data, c_data, c_rt, retired, nextKey, old_w, new_t, new_w,
                 pay_proof, rt_w, rv_w, eps, close, history>>

\* establish_customer_final(pp, pk_m, w, sig)
EstablishCustomerFinal ==
  /\ pc = "est2"
  /\ LET w == Unwrap(c_data).csk
         sig == Unwrap(new_wallet_sig)
         x == <<w.r, w.cid, convert_int_to_fr(w.balance), w.h_wpk>>
     IN IF IsNone(w.signature)
        THEN IF pp.extra_verify /\ ~verify_d(MerchKeys, x, sig)
             THEN /\ out' = Call("establish_customer_final", <<>>, FALSE, None)
                  /\ UNCHANGED <<c_data, pc>>
             ELSE /\ c_data' = Some([Unwrap(c_data) EXCEPT !.csk.signature = Some(sig)])
                  /\ pc' = "established"
                  /\ out' = Call("establish_customer_final", <<>>, TRUE, Some(TRUE))
        ELSE /\ out' = Call("establish_customer_final", <<>>, TRUE, Some(FALSE))
             /\ UNCHANGED <<c_data, pc>>
  /\ new_wallet_sig' = None
  /\ UNCHANGED <<pp, channel, m_data, c_rt, retired, nextKey, old_w, new_t, new_w,
                 pay_proof, rt_w, rv_w, eps, close, history>>

----------------------------------------------------------------------------
(* The Pay protocol *)

\* pay_by_customer_phase1_precompute: the wallet with the PoK of its signature
pay_by_customer_phase1_precompute(t, pk_m, w) ==
  LET wallet_sig == Unwrap(w.signature)
      old_balance == convert_int_to_fr(w.balance)
      old_x == <<w.r, w.cid, old_balance, w.h_wpk>>
      old_w_bal_com == BaseMul(2, old_balance)
      old_w_com_pr == GSub(GSub(t.w_com.c, old_w_bal_com), BaseMul(3, w.h_wpk))
      proof_old_cv == bs_gen_nizk_proof(old_x, old_w_com_pr)
      blind_sig == prover_generate_blinded_sig(wallet_sig)
      common_params == gen_common_params(pk_m, wallet_sig)
      proof_vs == vs_gen_nizk_proof(old_x, common_params)
  IN [w EXCEPT !.proof = Some([proof_cv |-> proof_old_cv, proof_vs |-> proof_vs,
                               bal_com |-> old_w_bal_com, blind_sig |-> blind_sig,
                               common_params |-> common_params])]

PayByCustomerPhase1Precompute ==
  /\ pc = "established"
  /\ IsNone(Unwrap(c_data).csk.proof)
  /\ ~IsNone(Unwrap(c_data).csk.signature)
  /\ c_data' = Some([Unwrap(c_data) EXCEPT
                       !.csk = pay_by_customer_phase1_precompute(
                                 Unwrap(c_data).channel_token, MerchKeys, @)])
  /\ out' = Call("pay_by_customer_phase1_precompute", <<>>, TRUE, <<>>)
  /\ UNCHANGED <<pp, channel, m_data, c_rt, retired, pc, nextKey, round, close, history>>

\* variant: a payment that leaves the customer exactly 0 is refused
pay_by_customer_phase1_refuses_zero(chan, t, pk_m, w, balance_increment, k) ==
  LET bal == w.balance
      wpk == k
      h_wpk == hash_pub_key_to_fr(wpk)
      r_pr == k
      cid == w.cid
      updated_balance == bal - balance_increment - chan.tx_fee
      merchant_balance == w.merchant_balance + (balance_increment + chan.tx_fee)
      updated_balance_pr == convert_int_to_fr(updated_balance)
      new_wallet_sec == <<r_pr, cid, updated_balance_pr, h_wpk>>
      w_com == commit(new_wallet_sec, r_pr)
      proof_cv == bs_gen_nizk_proof(new_wallet_sec, w_com.c)
      w_com_pr_pr == GSub(proof_cv.C, BaseMul(2, updated_balance_pr))
      wpk_index == Len(new_wallet_sec) - 1
      proof_rp == range_prove(updated_balance)
      final_balance_increment == balance_increment + chan.tx_fee
      inc_bal == IF final_balance_increment < 0
                 THEN 0 - final_balance_increment ELSE final_balance_increment
      r_inc == k
      inc_vec == <<r_inc, 0 - convert_int_to_fr(balance_increment + chan.tx_fee)>>
      v_com == commit(inc_vec, r_inc)
      proof_vcom == bs_gen_nizk_proof(inc_vec, v_com.c)
      wallet_proof == Unwrap(w.proof)
      bal_proof ==
        IF t.third_party_pay
        THEN [third_party |-> TRUE, vcom |-> Some(v_com),
              proof_vcom |-> Some(proof_vcom),
              proof_vrange |-> Some(range_prove(inc_bal)),
              w_com_pr_pr |-> w_com_pr_pr, balance_increment |-> 0,
              old_bal_com |-> wallet_proof.bal_com]
        ELSE [third_party |-> FALSE, vcom |-> None, proof_vcom |-> None,
              proof_vrange |-> None,
              w_com_pr_pr |-> w_com_pr_pr, balance_increment |-> balance_increment,
              old_bal_com |-> wallet_proof.bal_com]
      payment_proof ==
        [proof2a |-> proof_cv, proof2c |-> wallet_proof.proof_vs, proof3 |-> proof_rp,
         bal_proof |-> bal_proof, old_com_base |-> wpk_index, wpk |-> w.wpk,
         wallet_sig |-> wallet_proof.blind_sig]
      t_c == [w_com |-> w_com, pk |-> t.pk, third_party_pay |-> t.third_party_pay]
      csk_c == [sk |-> w.sk, cid |-> cid, wpk |-> wpk, wsk |-> k, h_wpk |-> h_wpk,
                r |-> r_pr, balance |-> updated_balance,
                merchant_balance |-> merchant_balance,
                proof |-> None, signature |-> None, refund_token |-> None]
  IN IF IsNone(w.proof) THEN [ok |-> FALSE]
     ELSE IF updated_balance <= 0 THEN [ok |-> FALSE]
     ELSE IF t.third_party_pay /\ final_balance_increment < 0
             /\ ~(final_balance_increment >= 0 - E_MAX) THEN [ok |-> FALSE]
     ELSE [ok |-> TRUE, t_c |-> t_c, csk_c |-> csk_c, payment_proof |-> payment_proof]

\* pay_by_customer_phase1(pp, channel, t, pk_m, old_w, balance_increment);
\* k is the fresh key pair, also used for the fresh randomness
pay_by_customer_phase1(chan, t, pk_m, w, balance_increment, k) ==
  LET bal == w.balance
      wpk == k
      h_wpk == hash_pub_key_to_fr(wpk)
      r_pr == k
      cid == w.cid
      updated_balance == bal - balance_increment - chan.tx_fee
      merchant_balance == w.merchant_balance + (balance_increment + chan.tx_fee)
      updated_balance_pr == convert_int_to_fr(updated_balance)
      new_wallet_sec == <<r_pr, cid, updated_balance_pr, h_wpk>>
      w_com == commit(new_wallet_sec, r_pr)
      proof_cv == bs_gen_nizk_proof(new_wallet_sec, w_com.c)
      w_com_pr_pr == GSub(proof_cv.C, BaseMul(2, updated_balance_pr))
      wpk_index == Len(new_wallet_sec) - 1
      proof_rp == range_prove(updated_balance)
      final_balance_increment == balance_increment + chan.tx_fee
      inc_bal == IF final_balance_increment < 0
                 THEN 0 - final_balance_increment ELSE final_balance_increment
      r_inc == k
      inc_vec == <<r_inc, 0 - convert_int_to_fr(balance_increment + chan.tx_fee)>>
      v_com == commit(inc_vec, r_inc)
      proof_vcom == bs_gen_nizk_proof(inc_vec, v_com.c)
      wallet_proof == Unwrap(w.proof)
      bal_proof ==
        IF t.third_party_pay
        THEN [third_party |-> TRUE, vcom |-> Some(v_com),
              proof_vcom |-> Some(proof_vcom),
              proof_vrange |-> Some(range_prove(inc_bal)),
              w_com_pr_pr |-> w_com_pr_pr, balance_increment |-> 0,
              old_bal_com |-> wallet_proof.bal_com]
        ELSE [third_party |-> FALSE, vcom |-> None, proof_vcom |-> None,
              proof_vrange |-> None,
              w_com_pr_pr |-> w_com_pr_pr, balance_increment |-> balance_increment,
              old_bal_com |-> wallet_proof.bal_com]
      payment_proof ==
        [proof2a |-> proof_cv, proof2c |-> wallet_proof.proof_vs, proof3 |-> proof_rp,
         bal_proof |-> bal_proof, old_com_base |-> wpk_index, wpk |-> w.wpk,
         wallet_sig |-> wallet_proof.blind_sig]
      t_c == [w_com |-> w_com, pk |-> t.pk, third_party_pay |-> t.third_party_pay]
      csk_c == [sk |-> w.sk, cid |-> cid, wpk |-> wpk, wsk |-> k, h_wpk |-> h_wpk,
                r |-> r_pr, balance |-> updated_balance,
                merchant_balance |-> merchant_balance,
                proof |-> None, signature |-> None, refund_token |-> None]
  IN IF IsNone(w.proof) THEN [ok |-> FALSE]
     ELSE IF updated_balance < 0 THEN [ok |-> FALSE]
     ELSE IF t.third_party_pay /\ final_balance_increment < 0
             /\ ~(final_balance_increment >= 0 - E_MAX) THEN [ok |-> FALSE]
     ELSE [ok |-> TRUE, t_c |-> t_c, csk_c |-> csk_c, payment_proof |-> payment_proof]

\* the wallet and token the customer stores, with the refund token held for it
Current == [c |-> Unwrap(c_data), rt |-> c_rt]

\* a Pay round started from the wallet of h
StartPay(h, balance_increment) ==
  LET r == pay_by_customer_phase1(channel, h.c.channel_token, MerchKeys, h.c.csk,
                                  balance_increment, nextKey)
      arg == [wpk |-> h.c.csk.wpk, balance_increment |-> balance_increment]
  IN /\ IF r.ok
        THEN /\ old_w' = Some(h.c.csk)
             /\ new_t' = Some(r.t_c)
             /\ new_w' = Some(r.csk_c)
             /\ pay_proof' = Some(r.payment_proof)
             /\ eps' = balance_increment
             /\ pc' = "pay1"
             /\ nextKey' = nextKey + 1
             /\ out' = Call("pay_by_customer_phase1", arg, TRUE, <<>>)
        ELSE /\ out' = Call("pay_by_customer_phase1", arg, FALSE, <<>>)
             /\ UNCHANGED <<old_w, new_t, new_w, pay_proof, eps, pc, nextKey>>
     /\ UNCHANGED <<pp, channel, m_data, c_data, c_rt, retired, rt_w, rv_w, new_wallet_sig,
                    close, b0, paid, rt_log, sig_log>>

\* the customer starts a Pay round from the stored wallet
PayByCustomerPhase1(balance_increment) ==
  /\ pc = "established"
  /\ nextKey <= MaxKeys
  /\ StartPay(Current, balance_increment)
  /\ UNCHANGED deviated

\* the customer starts a Pay round from a wallet it has already spent
PayByCustomerPhase1Stale(balance_increment) ==
  /\ pc = "established"
  /\ nextKey <= MaxKeys
  /\ \E h \in retired : StartPay(h, balance_increment)
  /\ deviated' = TRUE

\* a PaymentProof is a serializable message: the customer sends one whose
\* revealed wpk is another key it owns
TamperProofWpk(k) ==
  /\ pc = "pay1"
  /\ k \in 1..(nextKey - 1)
  /\ k # Unwrap(pay_proof).wpk
  /\ pay_proof' = Some([Unwrap(pay_proof) EXCEPT !.wpk = k])
  /\ deviated' = TRUE
  /\ out' = Call("tamper_proof_wpk", [wpk |-> k], TRUE, <<>>)
  /\ UNCHANGED <<pp, channel, m_data, c_data, c_rt, retired, pc, old_w, new_t, new_w,
                 rt_w, rv_w, new_wallet_sig, eps, close, nextKey, b0, paid, rt_log,
                 sig_log>>

\* variant: an entry that holds a revocation token is not found
exist_in_merchant_state_unrevoked_only(state, wpk, rev) ==
  LET fingerprint == compute_pub_key_fingerprint(wpk)
  IN /\ fingerprint \in DOMAIN state.keys
     /\ IsNone(state.keys[fingerprint].revoke_token)
     /\ state.keys[fingerprint].wpk = wpk

\* exist_in_merchant_state(state, wpk, rev)
exist_in_merchant_state(state, wpk, rev) ==
  LET fingerprint == compute_pub_key_fingerprint(wpk)
  IN IF DOMAIN state.keys = {} THEN FALSE
     ELSE IF fingerprint \in DOMAIN state.keys
     THEN LET pub_key == state.keys[fingerprint]
          IN IF IsNone(pub_key.revoke_token) THEN pub_key.wpk = wpk
             ELSE IF ~IsNone(rev)
             THEN pub_key.wpk = wpk /\ Unwrap(pub_key.revoke_token) = Unwrap(rev)
             ELSE pub_key.wpk = wpk
     ELSE FALSE

\* variant: the entry is written without the revocation token
update_merchant_state_drops_token(state, wpk, rev) ==
  [state EXCEPT !.keys = MapInsert(@, compute_pub_key_fingerprint(wpk),
                                   [wpk |-> wpk, revoke_token |-> None])]

\* update_merchant_state(state, wpk, rev)
update_merchant_state(state, wpk, rev) ==
  LET fingerprint == compute_pub_key_fingerprint(wpk)
  IN IF ~IsNone(rev)
     THEN [state EXCEPT !.keys = MapInsert(@, fingerprint,
                                  [wpk |-> wpk, revoke_token |-> Some(Unwrap(rev))])]
     ELSE [state EXCEPT !.keys = MapInsert(@, fingerprint,
                                  [wpk |-> wpk, revoke_token |-> None])]

\* pay_by_merchant_phase1(pp, state, proof, m_data): the state it leaves and,
\* when it does not panic, the refund token
pay_by_merchant_phase1(state, proof, m) ==
  LET proof_cv == proof.proof2a
      proof_vs == proof.proof2c
      bal_proof == proof.bal_proof
      blinded_sig == proof.wallet_sig
      pk_m == m.channel_token
      sk_m == m.csk.sk
      proof_vs_old_wallet == vs_verify_blind_sig(pk_m, proof_vs, blinded_sig)
      is_existing_wpk == exist_in_merchant_state(state, proof.wpk, None)
      bal_inc_within_range == /\ bal_proof.balance_increment >= 0 - E_MAX
                              /\ bal_proof.balance_increment <= E_MAX
      is_range_proof_valid == range_verify(proof.proof3)
      state1 == IF bal_proof.balance_increment < 0
                THEN [state EXCEPT !.R = 1] ELSE [state EXCEPT !.R = 0 - 1]
      bal_inc_fr == 0 - convert_int_to_fr(bal_proof.balance_increment)
      w_com_pr == GAdd(GAdd(bal_proof.w_com_pr_pr, bal_proof.old_bal_com),
                       BaseMul(2, bal_inc_fr))
      c_refund == GAdd(proof_cv.C, BaseMul(L, convert_str_to_fr("refund")))
      rt_w_ == bs_compute_blind_signature(sk_m, c_refund, proof_cv.num_secrets + 1)
      state2 == [update_merchant_state(state1, proof.wpk, None) EXCEPT !.pay_init = TRUE]
  IN IF ~(proof_vs_old_wallet /\ ~is_existing_wpk /\ bal_inc_within_range
          /\ is_range_proof_valid)
     THEN [ok |-> FALSE, state |-> state, ret |-> None]
     ELSE IF ~proof.bal_proof.third_party /\ proof_cv.C # w_com_pr
     THEN [ok |-> FALSE, state |-> state1, ret |-> None]
     ELSE IF proof.bal_proof.third_party
             /\ ~bs_verify_nizk_proof(Unwrap(proof.bal_proof.proof_vcom))
     THEN [ok |-> FALSE, state |-> state1, ret |-> None]
     ELSE IF bs_verify_nizk_proof(proof_cv)
     THEN [ok |-> TRUE, state |-> state2, ret |-> Some(rt_w_)]
     ELSE [ok |-> FALSE, state |-> state1, ret |-> None]

PayByMerchantPhase1 ==
  /\ pc = "pay1"
  /\ LET proof == Unwrap(pay_proof)
         r == pay_by_merchant_phase1(channel, proof, Unwrap(m_data))
     IN /\ channel' = r.state
        /\ out' = Call("pay_by_merchant_phase1", [proof |-> proof], r.ok, r.ret)
        /\ IF r.ok
           THEN /\ rt_w' = r.ret
                /\ rt_log' = Append(rt_log, proof.wpk)
                /\ pc' = "pay2"
                /\ UNCHANGED <<old_w, new_t, new_w, pay_proof, eps>>
           ELSE /\ old_w' = None /\ new_t' = None /\ new_w' = None /\ pay_proof' = None
                /\ eps' = 0
                /\ pc' = "established"
                /\ UNCHANGED <<rt_w, rt_log>>
  /\ UNCHANGED <<pp, m_data, c_data, c_rt, retired, rv_w, new_wallet_sig, close, nextKey,
                 b0, paid, sig_log, deviated>>

\* pay_by_customer_phase2(pp, old_w, new_w, pk_m, rt_w)
pay_by_customer_phase2(w_old, w_new, pk_m, rt) ==
  LET bal == convert_int_to_fr(w_new.balance)
      h_wpk == hash_pub_key_to_fr(w_new.wpk)
      refund == convert_str_to_fr("refund")
      x == <<w_new.r, w_new.cid, bal, h_wpk, refund>>
      is_rt_w_valid == verify_d(pk_m, x, rt)
      rm == [msgtype |-> "revoked", wpk |-> w_old.wpk, sig |-> None]
      rv_w_ == secp_sign(hash_to_slice(rm), w_old.wsk)
  IN IF is_rt_w_valid
     THEN [ok |-> TRUE, ret |-> Some([message |-> rm, signature |-> rv_w_])]
     ELSE [ok |-> FALSE, ret |-> None]

\* variant: the customer adopts the new wallet as it revokes the old one
AnswerRefundToken_adopts_wallet(k) ==
  LET w_old == [Unwrap(old_w) EXCEPT !.wpk = k, !.wsk = k]
      r == pay_by_customer_phase2(w_old, Unwrap(new_w), MerchKeys, Unwrap(rt_w))
  IN /\ out' = Call("pay_by_customer_phase2", [wpk |-> k], r.ok, r.ret)
     /\ IF r.ok
        THEN /\ rv_w' = r.ret /\ pc' = "pay3"
             /\ c_data' = Some([Unwrap(c_data) EXCEPT !.csk = Unwrap(new_w),
                                                      !.channel_token = Unwrap(new_t)])
        ELSE UNCHANGED <<rv_w, pc, c_data>>
     /\ UNCHANGED <<pp, channel, m_data, c_rt, retired, old_w, new_t, new_w,
                    pay_proof, rt_w, new_wallet_sig, eps, close, nextKey, b0, paid,
                    rt_log, sig_log>>

\* the customer answers the refund token with a revocation token signed with
\* the key pair k of the old wallet it passes
AnswerRefundToken(k) ==
  LET w_old == [Unwrap(old_w) EXCEPT !.wpk = k, !.wsk = k]
      r == pay_by_customer_phase2(w_old, Unwrap(new_w), MerchKeys, Unwrap(rt_w))
  IN /\ out' = Call("pay_by_customer_phase2", [wpk |-> k], r.ok, r.ret)
     /\ IF r.ok
        THEN rv_w' = r.ret /\ pc' = "pay3"
        ELSE UNCHANGED <<rv_w, pc>>
     /\ UNCHANGED <<pp, channel, m_data, c_data, c_rt, retired, old_w, new_t, new_w,
                    pay_proof, rt_w, new_wallet_sig, eps, close, nextKey, b0, paid,
                    rt_log, sig_log>>

\* with the old wallet of the round
PayByCustomerPhase2 ==
  /\ pc = "pay2"
  /\ AnswerRefundToken(Unwrap(old_w).wpk)
  /\ UNCHANGED deviated

\* with the key pair of the wpk it put into the proof
PayByCustomerPhase2Forged ==
  /\ pc = "pay2"
  /\ Unwrap(pay_proof).wpk # Unwrap(old_w).wpk
  /\ AnswerRefundToken(Unwrap(pay_proof).wpk)
  /\ deviated' = TRUE

\* variant: the revocation token is not verified
pay_by_merchant_phase2_no_rv_check(state, proof, m, rv) ==
  LET proof_cv == proof.proof2a
      state1 == update_merchant_state(state, proof.wpk, Some(rv.signature))
      new_wallet_sig_ == bs_compute_blind_signature(m.csk.sk, proof_cv.C,
                                                    proof_cv.num_secrets)
      m1 == [m EXCEPT !.csk.balance = @ + proof.bal_proof.balance_increment + state1.tx_fee]
  IN IF bs_verify_nizk_proof(proof_cv)
     THEN [ok |-> TRUE, state |-> [state1 EXCEPT !.R = 2], m |-> m1,
           ret |-> Some(new_wallet_sig_)]
     ELSE [ok |-> FALSE, state |-> state, m |-> m, ret |-> None]

\* variant: the merchant's balance is not updated
pay_by_merchant_phase2_no_credit(state, proof, m, rv) ==
  LET proof_cv == proof.proof2a
      is_rv_valid == secp_verify(hash_to_slice(rv.message), rv.signature, proof.wpk)
      state1 == update_merchant_state(state, proof.wpk, Some(rv.signature))
      new_wallet_sig_ == bs_compute_blind_signature(m.csk.sk, proof_cv.C,
                                                    proof_cv.num_secrets)
  IN IF bs_verify_nizk_proof(proof_cv) /\ is_rv_valid
     THEN [ok |-> TRUE, state |-> [state1 EXCEPT !.R = 2], m |-> m,
           ret |-> Some(new_wallet_sig_)]
     ELSE [ok |-> FALSE, state |-> state, m |-> m, ret |-> None]

\* variant: the channel fee is not added to the merchant's balance
pay_by_merchant_phase2_no_fee(state, proof, m, rv) ==
  LET proof_cv == proof.proof2a
      is_rv_valid == secp_verify(hash_to_slice(rv.message), rv.signature, proof.wpk)
      state1 == update_merchant_state(state, proof.wpk, Some(rv.signature))
      new_wallet_sig_ == bs_compute_blind_signature(m.csk.sk, proof_cv.C,
                                                    proof_cv.num_secrets)
      m1 == [m EXCEPT !.csk.balance = @ + proof.bal_proof.balance_increment]
  IN IF bs_verify_nizk_proof(proof_cv) /\ is_rv_valid
     THEN [ok |-> TRUE, state |-> [state1 EXCEPT !.R = 2], m |-> m1,
           ret |-> Some(new_wallet_sig_)]
     ELSE [ok |-> FALSE, state |-> state, m |-> m, ret |-> None]

\* pay_by_merchant_phase2(pp, state, proof, m_data, rv)
pay_by_merchant_phase2(state, proof, m, rv) ==
  LET proof_cv == proof.proof2a
      sk_m == m.csk.sk
      msg == hash_to_slice(rv.message)
      is_rv_valid == secp_verify(msg, rv.signature, proof.wpk)
      state1 == update_merchant_state(state, proof.wpk, Some(rv.signature))
      new_wallet_sig_ == bs_compute_blind_signature(sk_m, proof_cv.C, proof_cv.num_secrets)
      m1 == [m EXCEPT !.csk.balance = @ + proof.bal_proof.balance_increment + state1.tx_fee]
  IN IF bs_verify_nizk_proof(proof_cv) /\ is_rv_valid
     THEN [ok |-> TRUE, state |-> [state1 EXCEPT !.R = 2], m |-> m1,
           ret |-> Some(new_wallet_sig_)]
     ELSE [ok |-> FALSE, state |-> state, m |-> m, ret |-> None]

PayByMerchantPhase2 ==
  /\ pc = "pay3"
  /\ LET proof == Unwrap(pay_proof)
         rv == Unwrap(rv_w)
         r == pay_by_merchant_phase2(channel, proof, Unwrap(m_data), rv)
     IN /\ channel' = r.state
        /\ m_data' = Some(r.m)
        /\ out' = Call("pay_by_merchant_phase2", [proof |-> proof, rv |-> rv], r.ok, r.ret)
        /\ IF r.ok
           THEN /\ new_wallet_sig' = r.ret
                /\ sig_log' = Append(sig_log, proof.wpk)
                /\ pc' = "pay4"
                /\ UNCHANGED <<old_w, new_t, new_w, pay_proof, rt_w, rv_w, eps>>
           ELSE /\ old_w' = None /\ new_t' = None /\ new_w' = None /\ pay_proof' = None
                /\ rt_w' = None /\ rv_w' = None /\ eps' = 0
                /\ pc' = "established"
                /\ UNCHANGED <<new_wallet_sig, sig_log>>
  /\ UNCHANGED <<pp, c_data, c_rt, retired, close, nextKey, b0, paid, rt_log, deviated>>

\* pay_by_customer_final(pp, pk_m, c_data, new_t, new_w, sig)
PayByCustomerFinal ==
  /\ pc = "pay4"
  /\ LET w == Unwrap(new_w)
         sig == Unwrap(new_wallet_sig)
         x == <<w.r, w.cid, convert_int_to_fr(w.balance), hash_pub_key_to_fr(w.wpk)>>
     IN IF IsNone(w.signature)
        THEN IF pp.extra_verify /\ ~verify_d(MerchKeys, x, sig)
             THEN /\ out' = Call("pay_by_customer_final", <<>>, FALSE, None)
                  /\ UNCHANGED <<c_data, c_rt, retired, paid>>
             ELSE /\ c_data' = Some([Unwrap(c_data) EXCEPT
                                       !.csk = [w EXCEPT !.signature = Some(sig)],
                                       !.channel_token = Unwrap(new_t)])
                  /\ c_rt' = rt_w
                  /\ retired' = retired \cup {Current}
                  /\ paid' = Append(paid, eps)
                  /\ out' = Call("pay_by_customer_final", <<>>, TRUE, Some(TRUE))
        ELSE /\ out' = Call("pay_by_customer_final", <<>>, TRUE, Some(FALSE))
             /\ UNCHANGED <<c_data, c_rt, retired, paid>>
  /\ pc' = "established"
  /\ old_w' = None /\ new_t' = None /\ new_w' = None /\ pay_proof' = None
  /\ rt_w' = None /\ rv_w' = None /\ new_wallet_sig' = None /\ eps' = 0
  /\ UNCHANGED <<pp, channel, m_data, close, nextKey, b0, rt_log, sig_log, deviated>>

\* the customer stops a round before pay_by_customer_final: the new channel
\* token, the new wallet and the proof that pay_by_customer_phase1 returned,
\* and what it has received since, are dropped
AbandonPay ==
  /\ pc \in {"pay1", "pay2", "pay3"}
  /\ old_w' = None /\ new_t' = None /\ new_w' = None /\ pay_proof' = None
  /\ rt_w' = None /\ rv_w' = None /\ new_wallet_sig' = None /\ eps' = 0
  /\ pc' = "established"
  /\ out' = Call("abandon_pay", <<>>, TRUE, <<>>)
  /\ UNCHANGED <<pp, channel, m_data, c_data, c_rt, retired, close, nextKey, history>>

----------------------------------------------------------------------------
(* Close, Refute, Resolve *)

\* SignatureD::hash(prefix) of a refund token carried in a RefundMessage
signature_hash(sig, prefix) == 8000 + sig.m[1]

\* RefundMessage::hash
RefundMessage_hash(m) ==
  <<convert_str_to_fr(m.msgtype), hash_pub_key_to_fr(m.wpk),
    convert_hex_balance_to_fr(m.balance)>>
  \o (IF ~IsNone(m.r) THEN <<Unwrap(m.r)>> ELSE <<>>)
  \o (IF ~IsNone(m.rt) THEN <<signature_hash(Unwrap(m.rt), m.msgtype)>> ELSE <<>>)

\* RevokedMessage::hash
RevokedMessage_hash(m) ==
  <<convert_str_to_fr(m.msgtype), hash_pub_key_to_fr(m.wpk)>>
  \o (IF ~IsNone(m.sig) THEN <<hash_buffer_to_fr(m.msgtype, Unwrap(m.sig))>> ELSE <<>>)

\* customer_refund(pp, state, pk_m, w)
customer_refund(state, w) ==
  LET balance == w.balance
      m == IF ~state.pay_init
           THEN [msgtype |-> "refundUnsigned", wpk |-> w.wpk, balance |-> balance,
                 r |-> Some(w.r), rt |-> None]
           ELSE [msgtype |-> "refundToken", wpk |-> w.wpk, balance |-> balance,
                 r |-> None, rt |-> w.refund_token]
      sigma == sign_d(w.sk, RefundMessage_hash(m))
  IN [message |-> m, signature |-> sigma]

\* wallets the customer can close with: the stored one or one it kept
Held == {Current} \cup retired

CustomerRefund ==
  /\ pc = "established"
  /\ \E h \in Held :
       /\ closing' = Some(h)
       /\ rc_c' = Some(customer_refund(channel, h.c.csk))
       /\ out' = Call("customer_refund", [wpk |-> h.c.csk.wpk], TRUE, <<>>)
  /\ pc' = "cust_closed"
  /\ UNCHANGED <<pp, channel, m_data, c_data, c_rt, retired, round, rc_m, nextKey, history>>

\* merchant_refute(pp, state, t_c, m_data, rc_c, rv_token)
merchant_refute(state, t_c, m, rcc, rv_token) ==
  LET is_valid == verify_d(t_c.pk, RefundMessage_hash(rcc.message), rcc.signature)
      wpk == rcc.message.wpk
      state1 == IF ~exist_in_merchant_state(state, wpk, Some(rv_token))
                THEN update_merchant_state(state, wpk, Some(rv_token))
                ELSE state
      rm == [msgtype |-> "revoked", wpk |-> wpk, sig |-> Some(rv_token)]
      signature == sign_d(m.csk.sk, RevokedMessage_hash(rm))
  IN IF is_valid
     THEN [ok |-> TRUE, state |-> state1, ret |-> Some([message |-> rm, signature |-> signature])]
     ELSE [ok |-> FALSE, state |-> state, ret |-> None]

\* revocation tokens the merchant has recorded
RecordedTokens ==
  {Unwrap(channel.keys[f].revoke_token) :
     f \in {g \in DOMAIN channel.keys : ~IsNone(channel.keys[g].revoke_token)}}

\* a secp256k1 signature the merchant made itself, with a key pair of its own
OwnToken(wpk) == secp_sign(hash_to_slice([msgtype |-> "revoked", wpk |-> wpk]), 0)

MerchantRefute ==
  /\ pc = "cust_closed"
  /\ \E rv_token \in RecordedTokens \cup {OwnToken(Unwrap(rc_c).message.wpk)} :
     LET r == merchant_refute(channel, Unwrap(c_data).channel_token, Unwrap(m_data),
                              Unwrap(rc_c), rv_token)
     IN /\ channel' = r.state
        /\ out' = Call("merchant_refute", [rv_token |-> rv_token], r.ok, r.ret)
        /\ IF r.ok
           THEN rc_m' = r.ret /\ pc' = "merch_refuted"
           ELSE UNCHANGED <<rc_m, pc>>
  /\ UNCHANGED <<pp, m_data, c_data, c_rt, retired, round, closing, rc_c, nextKey, history>>

\* resolve(pp, c, m, rc_c, rc_m, rt_w): a pair of balances, or a panic
resolve(c, m, rcc, rcm, rt) ==
  LET total_balance == c.csk.balance + m.csk.balance
      pk_c == c.channel_token.pk
      pk_m == m.channel_token
      rc_cust == Unwrap(rcc)
      rcc_valid == verify_d(pk_c, RefundMessage_hash(rc_cust.message), rc_cust.signature)
      msg == rc_cust.message
      w_com == c.channel_token.w_com
      x_unsigned == <<w_com.r, c.csk.cid, hash_pub_key_to_fr(c.csk.wpk),
                      convert_int_to_fr(c.csk.balance)>>
      x_token == <<c.csk.r, c.csk.cid, convert_int_to_fr(msg.balance),
                   hash_pub_key_to_fr(msg.wpk), convert_str_to_fr("refund")>>
      rc_merch == Unwrap(rcm)
      refute_valid == verify_d(pk_m, RevokedMessage_hash(rc_merch.message),
                               rc_merch.signature)
      Ret(bc, bm) == [ok |-> TRUE, ret |-> Some(<<bc, bm>>)]
      Panic == [ok |-> FALSE, ret |-> None]
  IN IF IsNone(rcc) /\ IsNone(rcm) THEN Panic
     ELSE IF IsNone(rcc) THEN Ret(0, total_balance)
     ELSE IF ~rcc_valid THEN Panic
     ELSE IF msg.msgtype = "refundUnsigned" /\ ~decommit(w_com, x_unsigned)
     THEN Ret(0, total_balance)
     ELSE IF msg.msgtype = "refundToken" /\ IsNone(rt) THEN Panic
     ELSE IF msg.msgtype = "refundToken" /\ ~verify_d(pk_m, x_token, Unwrap(rt))
     THEN Ret(0, total_balance)
     ELSE IF ~IsNone(rcm)
     THEN IF ~refute_valid THEN Ret(c.csk.balance, m.csk.balance)
          ELSE Ret(0, total_balance)
     ELSE Panic

\* resolve is run on the customer's closure and the refund token of the wallet
\* it closed with, with the merchant's closure when there is one or without it,
\* on the customer data that is stored or that was closed with
Resolve ==
  /\ pc \in {"cust_closed", "merch_refuted"}
  /\ \E c \in {Unwrap(c_data), Unwrap(closing).c},
        rcc \in {rc_c}, rcm \in {None, rc_m},
        rt \in {Unwrap(closing).rt} :
       LET r == resolve(c, Unwrap(m_data), rcc, rcm, rt)
           arg == [c |-> c, rc_c |-> rcc, rc_m |-> rcm, rt_w |-> rt]
       IN out' = Call("resolve", arg, r.ok, r.ret)
  /\ UNCHANGED <<pp, channel, m_data, c_data, c_rt, retired, pc, round, close, nextKey,
                 history>>

----------------------------------------------------------------------------

\* the Pay protocol, with a customer that may stop a round and may spend a
\* wallet again
Next ==
  \/ \E fee \in FeeValues : SetChannelFee(fee)
  \/ \E b \in B0MerchValues : InitMerchant(b)
  \/ \E b \in B0CustValues : InitCustomer(b)
  \/ EstablishMerchantPhase2
  \/ EstablishCustomerFinal
  \/ PayByCustomerPhase1Precompute
  \/ \E e \in EpsValues : PayByCustomerPhase1(e)
  \/ \E e \in EpsValues : PayByCustomerPhase1Stale(e)
  \/ PayByMerchantPhase1
  \/ PayByCustomerPhase2
  \/ PayByMerchantPhase2
  \/ PayByCustomerFinal
  \/ AbandonPay

Spec == Init /\ [][Next]_vars

\* the Pay protocol, with a customer that may stop a round and may reveal
\* another wpk than the one of the wallet it spends
NextForge ==
  \/ \E fee \in FeeValues : SetChannelFee(fee)
  \/ \E b \in B0MerchValues : InitMerchant(b)
  \/ \E b \in B0CustValues : InitCustomer(b)
  \/ EstablishMerchantPhase2
  \/ EstablishCustomerFinal
  \/ PayByCustomerPhase1Precompute
  \/ \E e \in EpsValues : PayByCustomerPhase1(e)
  \/ \E k \in 1..MaxKeys : TamperProofWpk(k)
  \/ PayByMerchantPhase1
  \/ PayByCustomerPhase2
  \/ PayByCustomerPhase2Forged
  \/ PayByMerchantPhase2
  \/ PayByCustomerFinal
  \/ AbandonPay

SpecForge == Init /\ [][NextForge]_vars

\* the Pay protocol followed by Close, Refute and Resolve
NextClose ==
  \/ \E fee \in FeeValues : SetChannelFee(fee)
  \/ \E b \in B0MerchValues : InitMerchant(b)
  \/ \E b \in B0CustValues : InitCustomer(b)
  \/ EstablishMerchantPhase2
  \/ EstablishCustomerFinal
  \/ PayByCustomerPhase1Precompute
  \/ \E e \in EpsValues : PayByCustomerPhase1(e)
  \/ PayByMerchantPhase1
  \/ PayByCustomerPhase2
  \/ PayByMerchantPhase2
  \/ PayByCustomerFinal
  \/ CustomerRefund
  \/ MerchantRefute
  \/ Resolve

SpecClose == Init /\ [][NextClose]_vars

----------------------------------------------------------------------------
(* Close in the middle of a Pay round, resolve on any inputs *)

\* customer_refund called on the stored wallet after pay_by_merchant_phase2
\* has returned and before pay_by_customer_final
CustomerRefundMidRound ==
  /\ pc = "pay4"
  /\ closing' = Some(Current)
  /\ rc_c' = Some(customer_refund(channel, Current.c.csk))
  /\ out' = Call("customer_refund", [wpk |-> Current.c.csk.wpk], TRUE, <<>>)
  /\ pc' = "cust_closed"
  /\ UNCHANGED <<pp, channel, m_data, c_data, c_rt, retired, round, rc_m, nextKey, history>>

\* a customer closure whose signature was not made with the customer's key
BadlySigned(rcc) ==
  IF IsNone(rcc) THEN None
  ELSE Some([Unwrap(rcc) EXCEPT !.signature.signer = MerchKeys])

\* resolve as the network may be asked to run it: each closure message and
\* the refund token are Options, and the customer's closure may carry a
\* signature that does not verify
ResolveAnyInputs ==
  /\ pc \in {"established", "cust_closed", "merch_refuted"}
  /\ \E c \in {Unwrap(c_data)} \cup {h.c : h \in Range(closing)},
        rcc \in {None, rc_c, BadlySigned(rc_c)}, rcm \in {None, rc_m},
        rt \in {None} \cup {h.rt : h \in Range(closing)} :
       LET r == resolve(c, Unwrap(m_data), rcc, rcm, rt)
           arg == [c |-> c, rc_c |-> rcc, rc_m |-> rcm, rt_w |-> rt]
       IN out' = Call("resolve", arg, r.ok, r.ret)
  /\ UNCHANGED <<pp, channel, m_data, c_data, c_rt, retired, pc, round, close, nextKey,
                 history>>

NextResolve ==
  \/ \E fee \in FeeValues : SetChannelFee(fee)
  \/ \E b \in B0MerchValues : InitMerchant(b)
  \/ \E b \in B0CustValues : InitCustomer(b)
  \/ EstablishMerchantPhase2
  \/ EstablishCustomerFinal
  \/ PayByCustomerPhase1Precompute
  \/ \E e \in EpsValues : PayByCustomerPhase1(e)
  \/ PayByMerchantPhase1
  \/ PayByCustomerPhase2
  \/ PayByMerchantPhase2
  \/ PayByCustomerFinal
  \/ CustomerRefund
  \/ CustomerRefundMidRound
  \/ MerchantRefute
  \/ ResolveAnyInputs

SpecResolve == Init /\ [][NextResolve]_vars

----------------------------------------------------------------------------
(* A proof changed between the two merchant steps of a round *)

\* the PaymentProof handed to pay_by_merchant_phase2 is a message of its own:
\* the customer sends, with the revocation token, a proof whose PoK of the
\* new wallet commitment was computed from another balance than the committed
TamperProofCv ==
  /\ pc = "pay3"
  /\ bs_verify_nizk_proof(Unwrap(pay_proof).proof2a)
  /\ pay_proof' = Some([Unwrap(pay_proof) EXCEPT !.proof2a.x[3] = @ + 1])
  /\ deviated' = TRUE
  /\ out' = Call("tamper_proof_cv", <<>>, TRUE, <<>>)
  /\ UNCHANGED <<pp, channel, m_data, c_data, c_rt, retired, pc, old_w, new_t, new_w,
                 rt_w, rv_w, new_wallet_sig, eps, close, nextKey, b0, paid, rt_log,
                 sig_log>>

NextTamper ==
  \/ \E fee \in FeeValues : SetChannelFee(fee)
  \/ \E b \in B0MerchValues : InitMerchant(b)
  \/ \E b \in B0CustValues : InitCustomer(b)
  \/ EstablishMerchantPhase2
  \/ EstablishCustomerFinal
  \/ PayByCustomerPhase1Precompute
  \/ \E e \in EpsValues : PayByCustomerPhase1(e)
  \/ PayByMerchantPhase1
  \/ PayByCustomerPhase2
  \/ TamperProofCv
  \/ PayByMerchantPhase2
  \/ PayByCustomerFinal

SpecTamper == Init /\ [][NextTamper]_vars

----------------------------------------------------------------------------
(* Payments at and beyond the largest increment *)

\* increments at the two ends of the allowed range and one step outside
BoundaryEps == {0 - (E_MAX + 1), 0 - E_MAX, 0, E_MAX, E_MAX + 1}

\* initial customer balances that can pay an increment of E_MAX + 1
BoundaryB0Cust == {E_MAX + 1, E_MAX + 2}

NextBoundary ==
  \/ \E fee \in FeeValues : SetChannelFee(fee)
  \/ \E b \in B0MerchValues : InitMerchant(b)
  \/ \E b \in BoundaryB0Cust : InitCustomer(b)
  \/ EstablishMerchantPhase2
  \/ EstablishCustomerFinal
  \/ PayByCustomerPhase1Precompute
  \/ \E e \in BoundaryEps : PayByCustomerPhase1(e)
  \/ PayByMerchantPhase1
  \/ PayByCustomerPhase2
  \/ PayByMerchantPhase2
  \/ PayByCustomerFinal

SpecBoundary == Init /\ [][NextBoundary]_vars

----------------------------------------------------------------------------
(* Third-party payments: a second channel with the same merchant *)

\* key pair of the customer of the second channel
BobKeys == "bob_keys"
\* initial balance of that customer: enough for every increment and fee tried
BobB0 == MaxEps + MaxFee
\* its first wallet key pair; the wallet key pairs of the first channel are
\* 1..MaxKeys
BobKey == MaxKeys + 1

\* the second channel is set up and established with the merchant and its
\* customer runs pay_by_customer_phase1_precompute and pay_by_customer_phase1
\* with balance_increment
second_channel_pay(third_party_support, fee, balance_increment) ==
  LET chan0 == [ChannelStateNew(third_party_support) EXCEPT !.tx_fee = fee]
      d == init_customer(chan0, BobB0, 0, BobKeys, BobKey)
      chan == [chan0 EXCEPT !.cid = d.csk.cid]
      wallet_sig == bs_check_proof_and_gen_signature(MerchKeys, establish_customer_phase1(d))
      w == pay_by_customer_phase1_precompute(d.channel_token, MerchKeys,
                                             [d.csk EXCEPT !.signature = wallet_sig])
  IN pay_by_customer_phase1(chan, d.channel_token, MerchKeys, w, balance_increment,
                            BobKey + 1)

\* a BalanceProof is a serializable message: one whose PoK of the committed
\* increment, or whose range proof of the increment, does not verify
Damaged(bal_proof, how) ==
  IF IsNone(bal_proof.proof_vcom) THEN bal_proof
  ELSE CASE how = "vcom" ->
              [bal_proof EXCEPT !.proof_vcom = Some([Unwrap(@) EXCEPT !.x[2] = @ + 1])]
         [] how = "vrange" ->
              [bal_proof EXCEPT !.proof_vrange = Some(range_prove(0 - 1))]
         [] OTHER -> bal_proof

\* variant: the fee is left out of the comparison of the commitments
verify_third_party_payment_without_fee(fee, proof1, proof2) ==
  LET vcom1 == Unwrap(proof1.proof_vcom)
      vcom2 == Unwrap(proof2.proof_vcom)
      added_commits == GAdd(vcom1.C, vcom2.C)
      h_r1_r2 == GAdd(BaseMul(0, Unwrap(proof1.vcom).r), BaseMul(0, Unwrap(proof2.vcom).r))
  IN IF proof1.third_party /\ proof2.third_party
     THEN [ok |-> TRUE,
           ret |-> Some(/\ bs_verify_nizk_proof(vcom1)
                        /\ bs_verify_nizk_proof(vcom2)
                        /\ range_verify(Unwrap(proof1.proof_vrange))
                        /\ range_verify(Unwrap(proof2.proof_vrange))
                        /\ added_commits = h_r1_r2)]
     ELSE [ok |-> FALSE, ret |-> None]

\* verify_third_party_payment(pp, fee, proof1, proof2): a boolean, or a panic
verify_third_party_payment(fee, proof1, proof2) ==
  LET vcom1 == Unwrap(proof1.proof_vcom)
      vcom2 == Unwrap(proof2.proof_vcom)
      rproof1 == Unwrap(proof1.proof_vrange)
      rproof2 == Unwrap(proof2.proof_vrange)
      range_proof1_valid == range_verify(rproof1)
      range_proof2_valid == range_verify(rproof2)
      added_commits == GAdd(vcom1.C, vcom2.C)
      tx_fee == BaseMul(1, 0 - convert_int_to_fr(fee))
      h_r1_r2 == GAdd(GAdd(BaseMul(0, Unwrap(proof1.vcom).r),
                           BaseMul(0, Unwrap(proof2.vcom).r)), tx_fee)
      is_pay_plus_fee == added_commits = h_r1_r2
  IN IF proof1.third_party /\ proof2.third_party
     THEN [ok |-> TRUE,
           ret |-> Some(/\ bs_verify_nizk_proof(vcom1)
                        /\ bs_verify_nizk_proof(vcom2)
                        /\ range_proof1_valid /\ range_proof2_valid
                        /\ is_pay_plus_fee)]
     ELSE [ok |-> FALSE, ret |-> None]

\* the intermediary checks the proof of the payment on this channel against
\* the proof of a payment of e2 on a second channel with fee fee2, once, before
\* it answers either customer
VerifyThirdPartyPayment(fee, third_party2, fee2, e2, how) ==
  /\ pc = "pay1"
  /\ LET r2 == second_channel_pay(third_party2, fee2, e2)
     IN /\ r2.ok
        /\ LET proof1 == Unwrap(pay_proof).bal_proof
               proof2 == Damaged(r2.payment_proof.bal_proof, how)
               r == verify_third_party_payment(fee, proof1, proof2)
               arg == [fee |-> fee, proof1 |-> proof1, proof2 |-> proof2,
                       e1 |-> eps, f1 |-> channel.tx_fee, e2 |-> e2, f2 |-> fee2]
           IN out' = Call("verify_third_party_payment", arg, r.ok, r.ret)
  /\ pc' = "verified"
  /\ UNCHANGED <<pp, channel, m_data, c_data, c_rt, retired, round, close, nextKey,
                 history>>

NextThirdParty ==
  \/ \E fee \in FeeValues : SetChannelFee(fee)
  \/ \E b \in B0MerchValues : InitMerchant(b)
  \/ \E b \in B0CustValues : InitCustomer(b)
  \/ EstablishMerchantPhase2
  \/ EstablishCustomerFinal
  \/ PayByCustomerPhase1Precompute
  \/ \E e \in EpsValues : PayByCustomerPhase1(e)
  \/ \E fee \in 0..(2 * MaxFee), third_party2 \in BOOLEAN, fee2 \in FeeValues,
        e2 \in EpsValues, how \in {"intact", "vcom", "vrange"} :
       VerifyThirdPartyPayment(fee, third_party2, fee2, e2, how)

SpecThirdParty == Init /\ [][NextThirdParty]_vars

----------------------------------------------------------------------------
(* A proof checked against the state of a channel that is not established *)

\* the merchant, who uses one key pair for all its channels, runs
\* pay_by_merchant_phase1 on the proof with the ChannelState of another of
\* its channels, created and given a fee, on which establish_merchant_phase2
\* has not run
PayByMerchantPhase1OtherChannel(third_party_support, fee) ==
  /\ pc = "pay1"
  /\ LET state == [ChannelStateNew(third_party_support) EXCEPT !.tx_fee = fee]
         proof == Unwrap(pay_proof)
         r == pay_by_merchant_phase1(state, proof, Unwrap(m_data))
     IN out' = Call("pay_by_merchant_phase1", [proof |-> proof, state |-> state],
                    r.ok, [rt_w |-> r.ret, state |-> r.state])
  /\ UNCHANGED <<pp, channel, m_data, c_data, c_rt, retired, pc, round, close, nextKey,
                 history>>

NextOtherChannel ==
  \/ \E fee \in FeeValues : SetChannelFee(fee)
  \/ \E b \in B0MerchValues : InitMerchant(b)
  \/ \E b \in B0CustValues : InitCustomer(b)
  \/ EstablishMerchantPhase2
  \/ EstablishCustomerFinal
  \/ PayByCustomerPhase1Precompute
  \/ \E e \in EpsValues : PayByCustomerPhase1(e)
  \/ \E third_party_support \in BOOLEAN, fee \in FeeValues :
       PayByMerchantPhase1OtherChannel(third_party_support, fee)
  \/ PayByMerchantPhase1
  \/ PayByCustomerPhase2
  \/ PayByMerchantPhase2
  \/ PayByCustomerFinal

SpecOtherChannel == Init /\ [][NextOtherChannel]_vars

----------------------------------------------------------------------------
(* The second merchant step without the first *)

\* the customer sends the proof of pay_by_customer_phase1 straight to
\* pay_by_merchant_phase2, with a revocation token it signs itself with the
\* key of the wallet it spends (the signature pay_by_customer_phase2 makes)
PayByMerchantPhase2Unsolicited ==
  /\ pc = "pay1"
  /\ LET proof == Unwrap(pay_proof)
         w_old == Unwrap(old_w)
         rm == [msgtype |-> "revoked", wpk |-> w_old.wpk, sig |-> None]
         rv == [message |-> rm, signature |-> secp_sign(hash_to_slice(rm), w_old.wsk)]
         r == pay_by_merchant_phase2(channel, proof, Unwrap(m_data), rv)
     IN /\ channel' = r.state
        /\ m_data' = Some(r.m)
        /\ out' = Call("pay_by_merchant_phase2", [proof |-> proof, rv |-> rv], r.ok, r.ret)
        /\ IF r.ok
           THEN /\ rv_w' = Some(rv)
                /\ new_wallet_sig' = r.ret
                /\ sig_log' = Append(sig_log, proof.wpk)
                /\ pc' = "pay4"
                /\ UNCHANGED <<old_w, new_t, new_w, pay_proof, rt_w, eps>>
           ELSE /\ old_w' = None /\ new_t' = None /\ new_w' = None /\ pay_proof' = None
                /\ rt_w' = None /\ eps' = 0
                /\ pc' = "established"
                /\ UNCHANGED <<rv_w, new_wallet_sig, sig_log>>
  /\ deviated' = TRUE
  /\ UNCHANGED <<pp, c_data, c_rt, retired, close, nextKey, b0, paid, rt_log>>

NextUnsolicited ==
  \/ \E fee \in FeeValues : SetChannelFee(fee)
  \/ \E b \in B0MerchValues : InitMerchant(b)
  \/ \E b \in B0CustValues : InitCustomer(b)
  \/ EstablishMerchantPhase2
  \/ EstablishCustomerFinal
  \/ PayByCustomerPhase1Precompute
  \/ \E e \in EpsValues : PayByCustomerPhase1(e)
  \/ PayByMerchantPhase1
  \/ PayByCustomerPhase2
  \/ PayByMerchantPhase2
  \/ PayByMerchantPhase2Unsolicited
  \/ PayByCustomerFinal

SpecUnsolicited == Init /\ [][NextUnsolicited]_vars

----------------------------------------------------------------------------
(* A customer who commits to another balance than the one agreed *)

\* init_customer run by the customer with a balance of its own choosing,
\* while b0_customer is the balance agreed for the channel
InitCustomerMisstated(b0_customer, committed) ==
  /\ pc = "merch_init"
  /\ committed >= 0
  /\ committed # b0_customer
  /\ nextKey <= MaxKeys
  /\ LET b0_merchant == Unwrap(m_data).csk.balance
         d == init_customer(channel, committed, b0_merchant, CustKeys, nextKey)
     IN /\ b0_merchant >= 0
        /\ channel' = [channel EXCEPT !.cid = d.csk.cid]
        /\ c_data' = Some(d)
  /\ nextKey' = nextKey + 1
  /\ b0' = [b0 EXCEPT !.cust = b0_customer]
  /\ deviated' = TRUE
  /\ pc' = "opening"
  /\ out' = Call("init_customer", [b0_customer |-> committed], TRUE, <<>>)
  /\ UNCHANGED <<pp, m_data, c_rt, retired, round, close, paid, rt_log, sig_log>>

NextMisstated ==
  \/ \E fee \in FeeValues : SetChannelFee(fee)
  \/ \E b \in B0MerchValues : InitMerchant(b)
  \/ \E b \in B0CustValues : InitCustomer(b)
  \/ \E b \in B0CustValues, committed \in B0CustValues : InitCustomerMisstated(b, committed)
  \/ EstablishMerchantPhase2
  \/ EstablishCustomerFinal
  \/ PayByCustomerPhase1Precompute
  \/ \E e \in EpsValues : PayByCustomerPhase1(e)
  \/ PayByMerchantPhase1
  \/ PayByCustomerPhase2
  \/ PayByMerchantPhase2
  \/ PayByCustomerFinal

SpecMisstated == Init /\ [][NextMisstated]_vars

----------------------------------------------------------------------------
(* Close after pay_by_merchant_phase1 and before the revocation token *)

\* the round's new wallet and channel token with the refund token the
\* merchant issued for it in pay_by_merchant_phase1
Pending ==
  [c |-> [Unwrap(c_data) EXCEPT !.csk = Unwrap(new_w), !.channel_token = Unwrap(new_t)],
   rt |-> rt_w]

\* customer_refund called after pay_by_merchant_phase1 has returned the
\* refund token and before pay_by_customer_phase2: on the stored (old) wallet
\* or on the new wallet of the round
CustomerRefundAfterPhase1 ==
  /\ pc = "pay2"
  /\ \E h \in {Current, Pending} :
       /\ closing' = Some(h)
       /\ rc_c' = Some(customer_refund(channel, h.c.csk))
       /\ out' = Call("customer_refund", [wpk |-> h.c.csk.wpk], TRUE, <<>>)
  /\ pc' = "cust_closed"
  /\ UNCHANGED <<pp, channel, m_data, c_data, c_rt, retired, round, rc_m, nextKey, history>>

NextStopped ==
  \/ \E fee \in FeeValues : SetChannelFee(fee)
  \/ \E b \in B0MerchValues : InitMerchant(b)
  \/ \E b \in B0CustValues : InitCustomer(b)
  \/ EstablishMerchantPhase2
  \/ EstablishCustomerFinal
  \/ PayByCustomerPhase1Precompute
  \/ \E e \in EpsValues : PayByCustomerPhase1(e)
  \/ PayByMerchantPhase1
  \/ PayByCustomerPhase2
  \/ PayByMerchantPhase2
  \/ PayByCustomerFinal
  \/ CustomerRefundAfterPhase1
  \/ MerchantRefute
  \/ Resolve

SpecStopped == Init /\ [][NextStopped]_vars

----------------------------------------------------------------------------
(* pay_by_customer_final on a signature that may not verify *)

\* setup(_extra_verify): the public parameters with either setting
InitSetup ==
  /\ pp \in {[extra_verify |-> v] : v \in BOOLEAN}
  /\ channel \in {ChannelStateNew(tp) : tp \in BOOLEAN}
  /\ m_data = None
  /\ c_data = None
  /\ c_rt = None
  /\ retired = {}
  /\ pc = "new"
  /\ old_w = None /\ new_t = None /\ new_w = None /\ pay_proof = None
  /\ rt_w = None /\ rv_w = None /\ new_wallet_sig = None
  /\ eps = 0
  /\ closing = None /\ rc_c = None /\ rc_m = None
  /\ nextKey = 1
  /\ out = Call("new", <<>>, TRUE, <<>>)
  /\ b0 = [cust |-> 0, merch |-> 0]
  /\ paid = <<>>
  /\ rt_log = <<>>
  /\ sig_log = <<>>
  /\ deviated = FALSE

\* signatures the customer may be handed as the signature on the new wallet:
\* the one pay_by_merchant_phase2 returned, the refund token (a signature of
\* the merchant on another message), and one made with another key
HandedSignatures ==
  IF pc # "pay4" THEN {}
  ELSE {Unwrap(new_wallet_sig), Unwrap(rt_w),
        [Unwrap(new_wallet_sig) EXCEPT !.signer = CustKeys]}

\* pay_by_customer_final(pp, pk_m, c_data, new_t, new_w, sig)
PayByCustomerFinalOn(sig) ==
  /\ pc = "pay4"
  /\ LET w == Unwrap(new_w)
         x == <<w.r, w.cid, convert_int_to_fr(w.balance), hash_pub_key_to_fr(w.wpk)>>
         arg == [c_data |-> Unwrap(c_data), new_w |-> w, sig |-> sig]
     IN IF IsNone(w.signature)
        THEN IF pp.extra_verify /\ ~verify_d(MerchKeys, x, sig)
             THEN /\ out' = Call("pay_by_customer_final", arg, FALSE, None)
                  /\ UNCHANGED <<c_data, c_rt, retired, paid>>
             ELSE /\ c_data' = Some([Unwrap(c_data) EXCEPT
                                       !.csk = [w EXCEPT !.signature = Some(sig)],
                                       !.channel_token = Unwrap(new_t)])
                  /\ c_rt' = rt_w
                  /\ retired' = retired \cup {Current}
                  /\ paid' = Append(paid, eps)
                  /\ out' = Call("pay_by_customer_final", arg, TRUE, Some(TRUE))
        ELSE /\ out' = Call("pay_by_customer_final", arg, TRUE, Some(FALSE))
             /\ UNCHANGED <<c_data, c_rt, retired, paid>>
  /\ pc' = "established"
  /\ old_w' = None /\ new_t' = None /\ new_w' = None /\ pay_proof' = None
  /\ rt_w' = None /\ rv_w' = None /\ new_wallet_sig' = None /\ eps' = 0
  /\ deviated' = (deviated \/ sig # Unwrap(new_wallet_sig))
  /\ UNCHANGED <<pp, channel, m_data, close, nextKey, b0, rt_log, sig_log>>

NextHanded ==
  \/ \E fee \in FeeValues : SetChannelFee(fee)
  \/ \E b \in B0MerchValues : InitMerchant(b)
  \/ \E b \in B0CustValues : InitCustomer(b)
  \/ EstablishMerchantPhase2
  \/ EstablishCustomerFinal
  \/ PayByCustomerPhase1Precompute
  \/ \E e \in EpsValues : PayByCustomerPhase1(e)
  \/ PayByMerchantPhase1
  \/ PayByCustomerPhase2
  \/ PayByMerchantPhase2
  \/ \E sig \in HandedSignatures : PayByCustomerFinalOn(sig)

SpecHanded == InitSetup /\ [][NextHanded]_vars

----------------------------------------------------------------------------
(* Pay, Close, Refute and Resolve on a channel without a fee *)

NextFrame ==
  \/ \E b \in B0MerchValues : InitMerchant(b)
  \/ \E b \in B0CustValues : InitCustomer(b)
  \/ EstablishMerchantPhase2
  \/ EstablishCustomerFinal
  \/ PayByCustomerPhase1Precompute
  \/ \E e \in EpsValues : PayByCustomerPhase1(e)
  \/ PayByMerchantPhase1
  \/ PayByCustomerPhase2
  \/ PayByMerchantPhase2
  \/ PayByCustomerFinal
  \/ CustomerRefund
  \/ MerchantRefute
  \/ Resolve

SpecFrame == Init /\ [][NextFrame]_vars

----------------------------------------------------------------------------
(* ccs08.rs: the range proof over per-digit signatures *)

\* largest b the range parameters are set up for
MaxRangeB == 9
\* values of setup's a and b, of the secret x, and seeds of the generator
RangeAValues == (0 - 2)..3
RangeBValues == (0 - 1)..MaxRangeB
RangeXValues == (0 - 3)..(MaxRangeB + 1)
RngSeeds == 1..2

\* elements of G2 as exponents over the commitment bases (g, h)
G2Add(p, q) == <<p[1] + q[1], p[2] + q[2]>>
G2Mul(p, k) == <<p[1] * k, p[2] * k>>
G2Negate(p) == <<0 - p[1], 0 - p[2]>>
CSParams_g == <<1, 0>>
CSParams_h == <<0, 1>>

\* ped92 CSParams::commit(m, r) = g*m + h*r
CSParams_commit(m, r) == [c |-> G2Add(G2Mul(CSParams_g, m), G2Mul(CSParams_h, r)), r |-> r]

\* cl BlindKeyPair::prove_commitment: a blinded copy of the signature and the
\* commitment randomness t (one scalar: the key pair signs one message)
prove_commitment(t, signature) ==
  [blindSig |-> [signature EXCEPT !.blinded = TRUE], t |-> t, a |-> t]

\* cl BlindKeyPair::prove_response: zsig = t + c * message
prove_response(ps, c, message) == [zsig |-> ps.t + (c * message), a |-> ps.a]

\* cl BlindPublicKey::verify_proof: the response opens the commitment a to
\* the message of a signature under the key pair
verify_proof(kp, blindSig, proof, challenge) ==
  /\ blindSig.signer = kp
  /\ proof.zsig = proof.a + (challenge * blindSig.m)

\* ParamsUL::setup_ul(u, l): signatures of the key pair on 0..u-1
setup_ul(u, l) ==
  [signatures |-> [i \in 0..(u - 1) |-> [signer |-> "range_keys", m |-> i, blinded |-> FALSE]],
   kp |-> "range_keys", u |-> u, l |-> l]

\* variant: the digits start one position higher
decompose_skips_low_digit(x, u, l) == [i \in 1..l |-> (x \div (u ^ i)) % u]

\* decompose(x, u, l): the l low digits of x in base u
decompose(x, u, l) == [i \in 1..l |-> (x \div (u ^ (i - 1))) % u]

\* hash of the proof states and D: a challenge that is not zero
ccs08_hash(a, D) == 1 + ((D[1] + (3 * D[2])) % 5)

RECURSIVE SumD(_, _, _)
\* sum for i < n of g * (s[i] * u^i)
SumD(s, u, n) ==
  IF n = 0 THEN <<0, 0>>
  ELSE G2Add(SumD(s, u, n - 1), G2Mul(CSParams_g, s[n] * (u ^ (n - 1))))

\* ParamsUL::prove_ul(rng, x, r): a proof, or a panic
prove_ul(p, seed, x, r) ==
  IF x > p.u ^ p.l \/ x < 0 THEN [ok |-> FALSE]
  ELSE LET decx == decompose(x, p.u, p.l)
           m == seed + 1
           proofStates == [i \in 1..p.l |->
                             prove_commitment(seed + i, p.signatures[decx[i]])]
           D == G2Add(SumD([i \in 1..p.l |-> proofStates[i].t], p.u, p.l),
                      G2Mul(CSParams_h, m))
           C == CSParams_commit(x, r)
           c == ccs08_hash([i \in 1..p.l |-> proofStates[i].a], D)
           zr == m + (r * c)
       IN [ok |-> TRUE,
           V |-> [i \in 1..p.l |-> proofStates[i].blindSig],
           D |-> D, comm |-> C,
           sigProofs |-> [i \in 1..p.l |-> prove_response(proofStates[i], c, decx[i])],
           ch |-> c, zr |-> zr]

\* ParamsUL::verify_part1: D == -(C*c) + h*zr + sum g*(zsig[i]*u^i)
verify_part1(p, proof) ==
  G2Add(G2Add(G2Negate(G2Mul(proof.comm.c, proof.ch)), G2Mul(CSParams_h, proof.zr)),
        SumD([i \in 1..p.l |-> proof.sigProofs[i].zsig], p.u, p.l)) = proof.D

\* ParamsUL::verify_part2: every signature proof verifies
verify_part2(p, proof) ==
  \A i \in 1..p.l : verify_proof(p.kp, proof.V[i], proof.sigProofs[i], proof.ch)

\* ParamsUL::verify_ul
verify_ul(p, proof) == verify_part1(p, proof) /\ verify_part2(p, proof)

\* u = max(2, floor(log2(b) / log2(log2(b)))), which is 2 for 3 <= b <= 981
\* and 3 for 982 <= b <= 65535
setup_u(b) == IF b <= 981 THEN 2 ELSE 3

\* l = ceil(log_u(b))
setup_l(b, u) == CHOOSE l \in 0..b : u ^ l >= b /\ \A k \in 0..(l - 1) : u ^ k < b

\* variant: b = 3 is refused as well
RPPublicParams_setup_from_four(a, b) ==
  IF a > b \/ b <= 3 THEN [ok |-> FALSE]
  ELSE [ok |-> TRUE, p |-> setup_ul(setup_u(b), setup_l(b, setup_u(b))), a |-> a, b |-> b]

\* RPPublicParams::setup(a, b): parameters, or a panic when a > b or when
\* log2(log2(b)) is not positive
RPPublicParams_setup(a, b) ==
  IF a > b \/ b <= 2 THEN [ok |-> FALSE]
  ELSE [ok |-> TRUE, p |-> setup_ul(setup_u(b), setup_l(b, setup_u(b))), a |-> a, b |-> b]

\* RPPublicParams::prove(rng, x): a pair of proofs, or a panic
RPPublicParams_prove(params, seed, x) ==
  IF x > params.b \/ x < params.a THEN [ok |-> FALSE]
  ELSE LET ul == params.p.u ^ params.p.l
           r == seed
           first == prove_ul(params.p, seed, (x - params.b) + ul, r)
           second == prove_ul(params.p, seed, x - params.a, r)
       IN IF first.ok /\ second.ok
          THEN [ok |-> TRUE, p1 |-> first, p2 |-> second]
          ELSE [ok |-> FALSE]

\* RPPublicParams::verify
RPPublicParams_verify(params, proof) ==
  verify_ul(params.p, proof.p1) /\ verify_ul(params.p, proof.p2)

\* a test run of setup, prove and verify on chosen a, b, x
InitRange ==
  /\ pp = [extra_verify |-> TRUE]
  /\ channel = ChannelStateNew(FALSE)
  /\ m_data = None
  /\ c_data = None
  /\ c_rt = None
  /\ retired = {}
  /\ pc = "range_new"
  /\ old_w = None /\ new_t = None /\ new_w = None /\ pay_proof = None
  /\ rt_w = None /\ rv_w = None /\ new_wallet_sig = None
  /\ eps = 0
  /\ closing = None /\ rc_c = None /\ rc_m = None
  /\ nextKey = 1
  /\ \E a \in RangeAValues, b \in RangeBValues, x \in RangeXValues, seed \in RngSeeds :
       out = Call("range_new", [a |-> a, b |-> b, x |-> x, seed |-> seed], TRUE, <<>>)
  /\ b0 = [cust |-> 0, merch |-> 0]
  /\ paid = <<>>
  /\ rt_log = <<>>
  /\ sig_log = <<>>
  /\ deviated = FALSE

RangeSetup ==
  /\ pc = "range_new"
  /\ LET r == RPPublicParams_setup(out.arg.a, out.arg.b)
     IN /\ out' = Call("range_setup", out.arg, r.ok, IF r.ok THEN Some(r) ELSE None)
        /\ pc' = IF r.ok THEN "range_params" ELSE "range_end"
  /\ UNCHANGED <<pp, channel, m_data, c_data, c_rt, retired, round, close, nextKey, history>>

RangeProve ==
  /\ pc = "range_params"
  /\ LET params == Unwrap(out.ret)
         r == RPPublicParams_prove(params, out.arg.seed, out.arg.x)
     IN /\ out' = Call("range_prove", out.arg, r.ok,
                       IF r.ok THEN Some([params |-> params, proof |-> r]) ELSE None)
        /\ pc' = IF r.ok THEN "range_proved" ELSE "range_end"
  /\ UNCHANGED <<pp, channel, m_data, c_data, c_rt, retired, round, close, nextKey, history>>

RangeVerify ==
  /\ pc = "range_proved"
  /\ LET params == Unwrap(out.ret).params
         proof == Unwrap(out.ret).proof
     IN out' = Call("range_verify", out.arg, TRUE,
                    Some(RPPublicParams_verify(params, proof)))
  /\ pc' = "range_end"
  /\ UNCHANGED <<pp, channel, m_data, c_data, c_rt, retired, round, close, nextKey, history>>

NextRange ==
  \/ RangeSetup
  \/ RangeProve
  \/ RangeVerify

SpecRange == InitRange /\ [][NextRange]_vars

----------------------------------------------------------------------------
(* nizk.rs: the composite proof of a payment *)

\* the upper end of the range of a balance (std::i16::MAX in setup, scaled)
NizkMaxBalance == 3
BalanceValues == 0..NizkMaxBalance
\* pkc, and another one
PkcValues == {11, 12}
\* the old and the new wallet key, a third one, the close constant
OldWpk == 21
NewWpk == 22
OtherWpk == 23
CloseValue == 31

\* elements of G1 as exponents over the commitment bases (h, g_1, .., g_5)
NizkBases == 6
Pad(s) == [i \in 1..NizkBases |-> IF i <= Len(s) THEN s[i] ELSE 0]

\* Wallet::as_fr_vec: (pkc, wpk, bc, bm) and close when there is one
as_fr_vec(w) ==
  <<w.pkc, w.wpk, w.bc, w.bm>> \o (IF IsNone(w.close) THEN <<>> ELSE <<Unwrap(w.close)>>)

\* CSMultiParams::commit(x, r) = h*r + sum g_i*x[i]
CSMultiParams_commit(x, r) == [c |-> Pad(<<r>> \o x), r |-> r]

\* BlindKeyPair::sign_blind on a commitment, then unblind: a signature on the
\* committed messages
sign_blind_unblind(kp, com) ==
  [signer |-> kp, m |-> [i \in 1..(NizkBases - 1) |-> com.c[i + 1]], h |-> "G1",
   blinded |-> FALSE]

\* CommitmentProof::prove_commitment: one t per base, D = sum base_i * t[i]
CommitmentProof_prove_commitment(seed, n) ==
  LET t == [i \in 1..n |-> (7 * seed) + i]
  IN [D |-> Pad(t), t |-> t]

\* CommitmentProof::prove_response: z[0] = t[0] + c*r, z[i] = t[i] + c*x[i]
CommitmentProof_prove_response(x, r, D, t, challenge) ==
  [T |-> D,
   z |-> [i \in 1..Len(t) |->
            t[i] + (challenge * (IF i <= Len(x) + 1 THEN (<<r>> \o x)[i] ELSE 0))]]

\* CommitmentProof::verify_proof: sum base_i * z[i] = T + com * c
CommitmentProof_verify_proof(proof, com, challenge) ==
  Pad(proof.z) = [i \in 1..NizkBases |-> proof.T[i] + (challenge * com[i])]

\* BlindKeyPair::prove_commitment with pre-chosen t: the missing t are fresh
cl_prove_commitment(seed, n, signature, tOptional) ==
  LET t == [j \in 1..n |-> IF j <= Len(tOptional) THEN tOptional[j]
                           ELSE 100 + (7 * seed) + j]
  IN [blindSig |-> [signature EXCEPT !.blinded = TRUE], t |-> t, a |-> t]

\* BlindKeyPair::prove_response: zsig[i] = t[i] + c * message[i]
cl_prove_response(ps, challenge, message) ==
  [zsig |-> [j \in 1..Len(ps.t) |->
               ps.t[j] + (challenge * (IF j <= Len(message) THEN message[j] ELSE 0))],
   a |-> ps.a]

\* BlindPublicKey::verify_proof: the responses open a to the messages of a
\* signature under the key pair
cl_verify_proof(kp, blindSig, proof, challenge) ==
  /\ blindSig.signer = kp
  /\ \A j \in 1..Len(proof.zsig) :
       proof.zsig[j] = proof.a[j] + (challenge * blindSig.m[j])

\* NIZKPublicParams::hash: a challenge that is not zero
nizk_hash(a, T) == 1 + ((a[1] + T[1]) % 3)

\* NIZKPublicParams::setup(rng, messageLength)
NIZKPublicParams_setup(messageLength) ==
  [keypair |-> "nizk_keys", messageLength |-> messageLength,
   rpParamsBC |-> RPPublicParams_setup(0, NizkMaxBalance),
   rpParamsBM |-> RPPublicParams_setup(0, NizkMaxBalance)]

\* NIZKPublicParams::prove: a proof, or a panic of a range proof
NIZKPublicParams_prove(params, seed, r, oldWallet, newWallet, newWalletCom, rPrime, paymentToken) ==
  LET w_len == Len(as_fr_vec(newWallet))
      n_bases == params.messageLength + 1
      diff == n_bases - w_len
      max == IF diff > 1 THEN w_len ELSE n_bases
      pc_ == CommitmentProof_prove_commitment(seed, n_bases)
      t == pc_.t
      tOptional == IF max > 4 THEN <<t[2], 0, t[4], t[5]>> ELSE <<t[2], 0, t[4]>>
      proofState == cl_prove_commitment(seed, params.messageLength, paymentToken, tOptional)
      rpBC == RPPublicParams_prove(params.rpParamsBC, seed, newWallet.bc)
      rpBM == RPPublicParams_prove(params.rpParamsBM, seed, newWallet.bm)
      challenge == nizk_hash(proofState.a, pc_.D)
      sigProof == cl_prove_response(proofState, challenge, as_fr_vec(oldWallet))
      comProof == CommitmentProof_prove_response(as_fr_vec(newWallet), rPrime, pc_.D, t,
                                                 challenge)
  IN IF rpBC.ok /\ rpBM.ok
     THEN [ok |-> TRUE, sig |-> proofState.blindSig, sigProof |-> sigProof,
           comProof |-> comProof, rpBC |-> rpBC, rpBM |-> rpBM]
     ELSE [ok |-> FALSE]

\* variant: the merchant's balance is not linked
NIZKPublicParams_verify_without_bm(params, proof, epsilon, com, wpk) ==
  LET r0 == proof.sig.h # "one"
      challenge == nizk_hash(proof.sigProof.a, proof.comProof.T)
      r1 == /\ cl_verify_proof(params.keypair, proof.sig, proof.sigProof, challenge)
            /\ proof.sigProof.zsig[2] = wpk * challenge
      r2 == CommitmentProof_verify_proof(proof.comProof, com.c, challenge)
      r3 == RPPublicParams_verify(params.rpParamsBC, proof.rpBC)
      r4 == RPPublicParams_verify(params.rpParamsBM, proof.rpBM)
      epsC == epsilon * challenge
      r5 == /\ proof.comProof.z[2] = proof.sigProof.zsig[1]
            /\ proof.comProof.z[4] = proof.sigProof.zsig[3] - epsC
  IN r0 /\ r1 /\ r2 /\ r3 /\ r4 /\ r5

\* variant: the revealed wpk is not compared
NIZKPublicParams_verify_without_wpk(params, proof, epsilon, com, wpk) ==
  LET r0 == proof.sig.h # "one"
      challenge == nizk_hash(proof.sigProof.a, proof.comProof.T)
      r1 == cl_verify_proof(params.keypair, proof.sig, proof.sigProof, challenge)
      r2 == CommitmentProof_verify_proof(proof.comProof, com.c, challenge)
      r3 == RPPublicParams_verify(params.rpParamsBC, proof.rpBC)
      r4 == RPPublicParams_verify(params.rpParamsBM, proof.rpBM)
      epsC == epsilon * challenge
      r5 == /\ proof.comProof.z[2] = proof.sigProof.zsig[1]
            /\ proof.comProof.z[4] = proof.sigProof.zsig[3] - epsC
            /\ proof.comProof.z[5] = proof.sigProof.zsig[4] + epsC
  IN r0 /\ r1 /\ r2 /\ r3 /\ r4 /\ r5

\* NIZKPublicParams::verify(proof, epsilon, com, wpk)
NIZKPublicParams_verify(params, proof, epsilon, com, wpk) ==
  LET r0 == proof.sig.h # "one"
      challenge == nizk_hash(proof.sigProof.a, proof.comProof.T)
      r1 == /\ cl_verify_proof(params.keypair, proof.sig, proof.sigProof, challenge)
            /\ proof.sigProof.zsig[2] = wpk * challenge
      r2 == CommitmentProof_verify_proof(proof.comProof, com.c, challenge)
      r3 == RPPublicParams_verify(params.rpParamsBC, proof.rpBC)
      r4 == RPPublicParams_verify(params.rpParamsBM, proof.rpBM)
      epsC == epsilon * challenge
      r5 == /\ proof.comProof.z[2] = proof.sigProof.zsig[1]
            /\ proof.comProof.z[4] = proof.sigProof.zsig[3] - epsC
            /\ proof.comProof.z[5] = proof.sigProof.zsig[4] + epsC
  IN r0 /\ r1 /\ r2 /\ r3 /\ r4 /\ r5

\* the old wallet, its commitment and the merchant's signature on it, and
\* the new wallet and its commitment, as the tests build them
NizkOldWallet(in) ==
  [pkc |-> in.pkc, wpk |-> OldWpk, bc |-> in.bc, bm |-> in.bm, close |-> None]
NizkNewWallet(in) ==
  [pkc |-> in.pkc2, wpk |-> NewWpk, bc |-> in.bc2, bm |-> in.bm2,
   close |-> IF in.close THEN Some(CloseValue) ELSE None]
NizkR == 1
NizkRPrime == 2

\* a test run of prove and verify on chosen wallets and epsilon, with
\* parameters for 4 messages and no close slot or for 5 messages and a close
\* slot in the new wallet
InitNizk ==
  /\ pp = [extra_verify |-> TRUE]
  /\ channel = ChannelStateNew(FALSE)
  /\ m_data = None
  /\ c_data = None
  /\ c_rt = None
  /\ retired = {}
  /\ pc = "nizk_new"
  /\ old_w = None /\ new_t = None /\ new_w = None /\ pay_proof = None
  /\ rt_w = None /\ rv_w = None /\ new_wallet_sig = None
  /\ eps = 0
  /\ closing = None /\ rc_c = None /\ rc_m = None
  /\ nextKey = 1
  /\ \E cfg \in {<<4, FALSE>>, <<5, TRUE>>}, pkc2 \in PkcValues,
        bc \in BalanceValues, bm \in BalanceValues, e \in EpsValues,
        dc \in {0, 1}, dm \in {0, 1} :
       out = Call("nizk_new",
                  [messageLength |-> cfg[1], close |-> cfg[2], pkc |-> 11, pkc2 |-> pkc2,
                   bc |-> bc, bm |-> bm, epsilon |-> e,
                   bc2 |-> (bc - e) + dc, bm2 |-> (bm + e) - dm],
                  TRUE, <<>>)
  /\ b0 = [cust |-> 0, merch |-> 0]
  /\ paid = <<>>
  /\ rt_log = <<>>
  /\ sig_log = <<>>
  /\ deviated = FALSE

NizkProve ==
  /\ pc = "nizk_new"
  /\ LET in == out.arg
         params == NIZKPublicParams_setup(in.messageLength)
         wallet1 == NizkOldWallet(in)
         commitment1 == CSMultiParams_commit(as_fr_vec(wallet1), NizkR)
         wallet2 == NizkNewWallet(in)
         commitment2 == CSMultiParams_commit(as_fr_vec(wallet2), NizkRPrime)
         paymentToken == sign_blind_unblind(params.keypair, commitment1)
         proof == NIZKPublicParams_prove(params, 1, NizkR, wallet1, wallet2, commitment2,
                                         NizkRPrime, paymentToken)
     IN /\ out' = Call("nizk_prove", in, proof.ok,
                       IF proof.ok THEN Some(proof) ELSE None)
        /\ pc' = IF proof.ok THEN "nizk_proved" ELSE "nizk_end"
  /\ UNCHANGED <<pp, channel, m_data, c_data, c_rt, retired, round, close, nextKey, history>>

\* commitments the verifier may be handed: the one of the new wallet, one of
\* the same wallet with other randomness, one of a wallet with another bc
NizkCommitments(in) ==
  {CSMultiParams_commit(as_fr_vec(NizkNewWallet(in)), NizkRPrime),
   CSMultiParams_commit(as_fr_vec(NizkNewWallet(in)), NizkRPrime + 1),
   CSMultiParams_commit(as_fr_vec([NizkNewWallet(in) EXCEPT !.bc = @ + 1]), NizkRPrime)}

NizkVerify(epsilon, com, wpk) ==
  /\ pc = "nizk_proved"
  /\ LET in == out.arg
         params == NIZKPublicParams_setup(in.messageLength)
         r == NIZKPublicParams_verify(params, Unwrap(out.ret), epsilon, com, wpk)
     IN out' = Call("nizk_verify",
                    [in |-> in, epsilon |-> epsilon, com |-> com, wpk |-> wpk],
                    TRUE, Some(r))
  /\ pc' = "nizk_end"
  /\ UNCHANGED <<pp, channel, m_data, c_data, c_rt, retired, round, close, nextKey, history>>

NextNizk ==
  \/ NizkProve
  \/ /\ pc = "nizk_proved"
     /\ \E d \in {0 - 1, 0, 1}, com \in NizkCommitments(out.arg),
           wpk \in {OldWpk, NewWpk, OtherWpk} :
          NizkVerify(out.arg.epsilon + d, com, wpk)

SpecNizk == InitNizk /\ [][NextNizk]_vars

----------------------------------------------------------------------------
(* What the merchant receives in a payment *)

\* another honest customer of the merchant opens a channel with b0_customer
\* under the same ChannelState settings, has it established, and runs
\* pay_by_customer_phase1_precompute and pay_by_customer_phase1 with
\* balance_increment
other_customer_pay(chan0, b0_customer, balance_increment) ==
  LET d == init_customer(chan0, b0_customer, 0, BobKeys, BobKey)
      chan == [chan0 EXCEPT !.cid = d.csk.cid]
      wallet_sig == bs_check_proof_and_gen_signature(MerchKeys, establish_customer_phase1(d))
      w == pay_by_customer_phase1_precompute(d.channel_token, MerchKeys,
                                             [d.csk EXCEPT !.signature = wallet_sig])
  IN pay_by_customer_phase1(chan, d.channel_token, MerchKeys, w, balance_increment,
                            BobKey + 1)

\* a G2 element as its receiver sees it: one that contains pub_bases[0] * r for
\* randomness r the customer drew is hidden by it; any other is the value
\* itself, which anyone can compare with pub_bases[i] * v for a guessed v
Seen(e) == IF e[1] # 0 THEN [hidden |-> TRUE, e |-> BaseMul(0, 0)]
           ELSE [hidden |-> FALSE, e |-> e]

\* the fields of a PaymentProof as the merchant sees them: the proofs of
\* knowledge, the range proof and the blinded signature are hidden by the
\* randomness drawn for them, the wallet key is a fresh key, the rest are
\* group elements and plain values
MerchantView(proof) ==
  [proof2a_C |-> Seen(proof.proof2a.C),
   w_com_pr_pr |-> Seen(proof.bal_proof.w_com_pr_pr),
   old_bal_com |-> Seen(proof.bal_proof.old_bal_com),
   third_party |-> proof.bal_proof.third_party,
   balance_increment |-> proof.bal_proof.balance_increment,
   old_com_base |-> proof.old_com_base]

\* the merchant, holding the proof of the payment on this channel, receives
\* the proof of a payment of the same increment by another honest customer
\* whose wallet holds the balance b
PayByOtherCustomer(b) ==
  /\ pc = "pay1"
  /\ ~deviated
  /\ LET r2 == other_customer_pay([channel EXCEPT !.keys = <<>>, !.cid = 0,
                                                  !.pay_init = FALSE,
                                                  !.channel_established = FALSE],
                                  b, eps)
     IN /\ r2.ok
        /\ out' = Call("pay_by_customer_phase1",
                       [balance1 |-> Unwrap(old_w).balance, balance2 |-> b,
                        balance_increment |-> eps,
                        view1 |-> MerchantView(Unwrap(pay_proof)),
                        view2 |-> MerchantView(r2.payment_proof)],
                       TRUE, <<>>)
  /\ pc' = "compared"
  /\ UNCHANGED <<pp, channel, m_data, c_data, c_rt, retired, round, close, nextKey,
                 history>>

NextView ==
  \/ \E fee \in FeeValues : SetChannelFee(fee)
  \/ \E b \in B0MerchValues : InitMerchant(b)
  \/ \E b \in B0CustValues : InitCustomer(b)
  \/ EstablishMerchantPhase2
  \/ EstablishCustomerFinal
  \/ PayByCustomerPhase1Precompute
  \/ \E e \in EpsValues : PayByCustomerPhase1(e)
  \/ PayByMerchantPhase1
  \/ PayByCustomerPhase2
  \/ PayByMerchantPhase2
  \/ PayByCustomerFinal
  \/ \E b \in B0CustValues : PayByOtherCustomer(b)

SpecView == Init /\ [][NextView]_vars

----------------------------------------------------------------------------
(* pay_by_merchant_phase2 called again with the same arguments *)

\* the merchant receives the proof and the revocation token of the round a
\* second time, after it has answered them, and runs pay_by_merchant_phase2
\* on them again
PayByMerchantPhase2Again ==
  /\ pc = "pay4"
  /\ out.op = "pay_by_merchant_phase2"
  /\ out.ok
  /\ "balance" \notin DOMAIN out.arg
  /\ LET proof == Unwrap(pay_proof)
         rv == Unwrap(rv_w)
         r == pay_by_merchant_phase2(channel, proof, Unwrap(m_data), rv)
     IN /\ channel' = r.state
        /\ m_data' = Some(r.m)
        /\ out' = Call("pay_by_merchant_phase2",
                       [proof |-> proof, rv |-> rv,
                        balance |-> Unwrap(m_data).csk.balance],
                       r.ok, r.ret)
        /\ IF r.ok
           THEN /\ new_wallet_sig' = r.ret
                /\ sig_log' = Append(sig_log, proof.wpk)
           ELSE UNCHANGED <<new_wallet_sig, sig_log>>
  /\ UNCHANGED <<pp, c_data, c_rt, retired, pc, old_w, new_t, new_w, pay_proof, rt_w,
                 rv_w, eps, close, nextKey, b0, paid, rt_log, deviated>>

NextAgain ==
  \/ \E fee \in FeeValues : SetChannelFee(fee)
  \/ \E b \in B0MerchValues : InitMerchant(b)
  \/ \E b \in B0CustValues : InitCustomer(b)
  \/ EstablishMerchantPhase2
  \/ EstablishCustomerFinal
  \/ PayByCustomerPhase1Precompute
  \/ \E e \in EpsValues : PayByCustomerPhase1(e)
  \/ PayByMerchantPhase1
  \/ PayByCustomerPhase2
  \/ PayByMerchantPhase2
  \/ PayByMerchantPhase2Again
  \/ PayByCustomerFinal

SpecAgain == Init /\ [][NextAgain]_vars

----------------------------------------------------------------------------
(* ccs08.rs: decompose and prove_ul on chosen u, l and x *)

\* largest digit count tried
MaxDigits == 2

\* a test run of setup_ul, decompose, prove_ul and verify_ul on chosen u, l
\* and secret x
InitUl ==
  /\ pp = [extra_verify |-> TRUE]
  /\ channel = ChannelStateNew(FALSE)
  /\ m_data = None
  /\ c_data = None
  /\ c_rt = None
  /\ retired = {}
  /\ pc = "ul_new"
  /\ old_w = None /\ new_t = None /\ new_w = None /\ pay_proof = None
  /\ rt_w = None /\ rv_w = None /\ new_wallet_sig = None
  /\ eps = 0
  /\ closing = None /\ rc_c = None /\ rc_m = None
  /\ nextKey = 1
  /\ \E u \in 2..3, l \in 1..MaxDigits, x \in (0 - 2)..((3 ^ MaxDigits) + 2),
        seed \in RngSeeds :
       out = Call("ul_new", [u |-> u, l |-> l, x |-> x, seed |-> seed], TRUE, <<>>)
  /\ b0 = [cust |-> 0, merch |-> 0]
  /\ paid = <<>>
  /\ rt_log = <<>>
  /\ sig_log = <<>>
  /\ deviated = FALSE

\* decompose(x, u, l), called as in the tests on an x that is not negative
UlDecompose ==
  /\ pc = "ul_new"
  /\ out.arg.x >= 0
  /\ out' = Call("decompose", out.arg, TRUE,
                 Some(decompose(out.arg.x, out.arg.u, out.arg.l)))
  /\ pc' = "ul_decomposed"
  /\ UNCHANGED <<pp, channel, m_data, c_data, c_rt, retired, round, close, nextKey, history>>

\* params = setup_ul(rng, u, l); params.prove_ul(rng, x, r)
UlProve ==
  /\ pc \in {"ul_new", "ul_decomposed"}
  /\ LET params == setup_ul(out.arg.u, out.arg.l)
         r == prove_ul(params, out.arg.seed, out.arg.x, out.arg.seed)
     IN /\ out' = Call("prove_ul", out.arg, r.ok,
                       IF r.ok THEN Some([params |-> params, proof |-> r]) ELSE None)
        /\ pc' = IF r.ok THEN "ul_proved" ELSE "ul_end"
  /\ UNCHANGED <<pp, channel, m_data, c_data, c_rt, retired, round, close, nextKey, history>>

\* params.verify_ul(&proof)
UlVerify ==
  /\ pc = "ul_proved"
  /\ out' = Call("verify_ul", out.arg, TRUE,
                 Some(verify_ul(Unwrap(out.ret).params, Unwrap(out.ret).proof)))
  /\ pc' = "ul_end"
  /\ UNCHANGED <<pp, channel, m_data, c_data, c_rt, retired, round, close, nextKey, history>>

NextUl ==
  \/ UlDecompose
  \/ UlProve
  \/ UlVerify

SpecUl == InitUl /\ [][NextUl]_vars

----------------------------------------------------------------------------
(* nizk.rs: the range of the balances in the composite proof *)

\* std::i16::MAX, the upper end of the range of rpParamsBC and rpParamsBM
I16_MAX == 32767

\* NIZKPublicParams::setup with the range of the source, [0, std::i16::MAX],
\* where NIZKPublicParams_setup has the scaled-down [0, NizkMaxBalance]
NIZKPublicParams_setup_i16(messageLength) ==
  [NIZKPublicParams_setup(messageLength) EXCEPT
     !.rpParamsBC = RPPublicParams_setup(0, I16_MAX),
     !.rpParamsBM = RPPublicParams_setup(0, I16_MAX)]

\* a test run of prove and verify with parameters for 4 messages on wallets
\* whose new balances are the old ones after a payment of epsilon; the new
\* balances are around the ends of the range of the parameters or far above
InitNizkRange ==
  /\ pp = [extra_verify |-> TRUE]
  /\ channel = ChannelStateNew(FALSE)
  /\ m_data = None
  /\ c_data = None
  /\ c_rt = None
  /\ retired = {}
  /\ pc = "nizk_range_new"
  /\ old_w = None /\ new_t = None /\ new_w = None /\ pay_proof = None
  /\ rt_w = None /\ rv_w = None /\ new_wallet_sig = None
  /\ eps = 0
  /\ closing = None /\ rc_c = None /\ rc_m = None
  /\ nextKey = 1
  /\ \E pkc \in PkcValues, e \in EpsValues,
        bc2 \in {0 - 1, 0, 1, I16_MAX - 1, I16_MAX, I16_MAX + 1, 2 ^ 30},
        bm2 \in {0 - 1, 0, 1, I16_MAX - 1, I16_MAX, I16_MAX + 1, 2 ^ 30} :
       out = Call("nizk_new",
                  [messageLength |-> 4, close |-> FALSE, pkc |-> pkc, pkc2 |-> pkc,
                   bc |-> bc2 + e, bm |-> bm2 - e, epsilon |-> e,
                   bc2 |-> bc2, bm2 |-> bm2],
                  TRUE, <<>>)
  /\ b0 = [cust |-> 0, merch |-> 0]
  /\ paid = <<>>
  /\ rt_log = <<>>
  /\ sig_log = <<>>
  /\ deviated = FALSE

NizkRangeProve ==
  /\ pc = "nizk_range_new"
  /\ LET in == out.arg
         params == NIZKPublicParams_setup_i16(in.messageLength)
         wallet1 == NizkOldWallet(in)
         commitment1 == CSMultiParams_commit(as_fr_vec(wallet1), NizkR)
         wallet2 == NizkNewWallet(in)
         commitment2 == CSMultiParams_commit(as_fr_vec(wallet2), NizkRPrime)
         paymentToken == sign_blind_unblind(params.keypair, commitment1)
         proof == NIZKPublicParams_prove(params, 1, NizkR, wallet1, wallet2, commitment2,
                                         NizkRPrime, paymentToken)
     IN /\ out' = Call("nizk_prove", in, proof.ok,
                       IF proof.ok THEN Some(proof) ELSE None)
        /\ pc' = IF proof.ok THEN "nizk_range_proved" ELSE "nizk_range_end"
  /\ UNCHANGED <<pp, channel, m_data, c_data, c_rt, retired, round, close, nextKey, history>>

\* verify on the epsilon, the commitment of the new wallet and the old wpk
NizkRangeVerify ==
  /\ pc = "nizk_range_proved"
  /\ LET in == out.arg
         params == NIZKPublicParams_setup_i16(in.messageLength)
         com == CSMultiParams_commit(as_fr_vec(NizkNewWallet(in)), NizkRPrime)
         r == NIZKPublicParams_verify(params, Unwrap(out.ret), in.epsilon, com, OldWpk)
     IN out' = Call("nizk_verify", in, TRUE, Some(r))
  /\ pc' = "nizk_range_end"
  /\ UNCHANGED <<pp, channel, m_data, c_data, c_rt, retired, round, close, nextKey, history>>

NextNizkRange ==
  \/ NizkRangeProve
  \/ NizkRangeVerify

SpecNizkRange == InitNizkRange /\ [][NextNizkRange]_vars

----------------------------------------------------------------------------
(* Properties *)

RECURSIVE SumSeq(_)
SumSeq(s) == IF Len(s) = 0 THEN 0 ELSE s[1] + SumSeq(Tail(s))

\* C1: once pay_by_merchant_phase1 has answered a proof revealing wpk with a
\* refund token, every later pay_by_merchant_phase1 call on the same channel
\* state with a proof revealing that wpk panics: it returns no refund token
\* and leaves the channel state as it was.
C1_ReplayedWpkRejected ==
  [][(/\ pc = "pay1"
      /\ out'.op = "pay_by_merchant_phase1"
      /\ Unwrap(pay_proof).wpk \in Range(rt_log))
     => (/\ ~out'.ok
         /\ IsNone(out'.ret)
         /\ IsNone(rt_w')
         /\ channel' = channel
         /\ rt_log' = rt_log)]_vars

\* a wallet is spent again after a round that the merchant answered with a
\* refund token and the merchant, who finds the proof of the wallet signature
\* valid, refuses it
C1_Witness ==
  /\ out.op = "pay_by_merchant_phase1"
  /\ ~out.ok
  /\ out.arg.proof.wpk \in Range(rt_log)
  /\ vs_verify_blind_sig(MerchKeys, out.arg.proof.proof2c, out.arg.proof.wallet_sig)
  /\ range_verify(out.arg.proof.proof3)

\* C2: pay_by_merchant_phase1 accepts a proof only if the wpk it reveals is
\* the wallet key of the old wallet whose signature the proof demonstrates
\* (the fourth message of that signature is the hash of the revealed wpk).
C2_RevealedWpkIsWalletKey ==
  (out.op = "pay_by_merchant_phase1" /\ out.ok)
  => hash_pub_key_to_fr(out.arg.proof.wpk) = out.arg.proof.proof2c.x[4]

\* C3: the wpk of every proof that pay_by_merchant_phase2 has answered with a
\* wallet signature is in the channel state's keys with a revocation token,
\* and right after the call that token is the one the call received.
C3_RevocationRecorded ==
  /\ \A i \in DOMAIN sig_log :
       LET fingerprint == compute_pub_key_fingerprint(sig_log[i])
       IN /\ fingerprint \in DOMAIN channel.keys
          /\ channel.keys[fingerprint].wpk = sig_log[i]
          /\ ~IsNone(channel.keys[fingerprint].revoke_token)
  /\ (out.op = "pay_by_merchant_phase2" /\ out.ok)
     => channel.keys[compute_pub_key_fingerprint(out.arg.proof.wpk)].revoke_token
          = Some(out.arg.rv.signature)

\* pay_by_merchant_phase2 has just returned the signature on the new wallet
C3_Witness ==
  /\ out.op = "pay_by_merchant_phase2"
  /\ out.ok
  /\ pc = "pay4"
  /\ Len(sig_log) > 0

\* C4: pay_by_merchant_phase2 returns the signature on the new wallet only
\* when the revocation token it was given verifies under the wpk revealed in
\* the proof, and before pay_by_customer_final the customer's stored wallet
\* and channel token do not change (the precomputed proof aside).
C4_SignatureOnlyAfterRevocation ==
  [][/\ (pc = "pay3" /\ out'.op = "pay_by_merchant_phase2" /\ out'.ok)
        => secp_verify(hash_to_slice(Unwrap(rv_w).message), Unwrap(rv_w).signature,
                       Unwrap(pay_proof).wpk)
     /\ (~IsNone(new_wallet_sig') /\ pc' = "pay4")
        => (pc = "pay3" /\ ~IsNone(rv_w))
     /\ (pc \in {"established", "pay1", "pay2", "pay3"})
        => /\ Unwrap(c_data').channel_token = Unwrap(c_data).channel_token
           /\ [Unwrap(c_data').csk EXCEPT !.proof = None]
                = [Unwrap(c_data).csk EXCEPT !.proof = None]
           /\ c_rt' = c_rt]_vars

\* the merchant has issued the signature for a round whose proof reveals a
\* wpk the customer chose
C4_Witness ==
  /\ pc = "pay4"
  /\ out.op = "pay_by_merchant_phase2"
  /\ out.ok
  /\ ~IsNone(new_wallet_sig)
  /\ deviated

\* C5: between rounds of an honest run on a channel with no fee and no third
\* party, the customer's balance is the initial one minus the increments of
\* the completed rounds and the merchant's is the initial one plus them.
C5_BalancesAfterPays ==
  (/\ pc = "established"
   /\ ~deviated
   /\ channel.tx_fee = 0
   /\ ~channel.third_party)
  => /\ Unwrap(c_data).csk.balance = b0.cust - SumSeq(paid)
     /\ Unwrap(m_data).csk.balance = b0.merch + SumSeq(paid)

\* two rounds have completed, one with a positive and one with a negative
\* increment
C5_Witness ==
  /\ pc = "established"
  /\ ~deviated
  /\ channel.tx_fee = 0
  /\ ~channel.third_party
  /\ Len(paid) = 2
  /\ \E i, j \in DOMAIN paid : paid[i] > 0 /\ paid[j] < 0

C7_WalletBalancesInRange ==
  /\ (pc \in {"opening", "est2", "established"})
     => /\ Unwrap(c_data).csk.balance >= 0
        /\ Unwrap(c_data).csk.merchant_balance >= 0
        /\ Unwrap(c_data).csk.balance + Unwrap(c_data).csk.merchant_balance
             = b0.cust + b0.merch
  /\ (out.op = "pay_by_merchant_phase1" /\ out.ok)
     => /\ Unwrap(new_w).balance >= 0
        /\ Unwrap(new_w).merchant_balance >= 0
        /\ Unwrap(new_w).balance + Unwrap(new_w).merchant_balance
             = b0.cust + b0.merch

\* C8: after a completed Pay round, resolve, run on the closure of the
\* customer's latest wallet with that wallet's data and refund token and
\* without a merchant closure, returns the balances of that wallet.
C8_LatestCloseReturnsBalances ==
  (/\ out.op = "resolve"
   /\ Len(paid) > 0
   /\ Unwrap(closing).c = Unwrap(c_data)
   /\ out.arg.c = Unwrap(c_data)
   /\ IsNone(out.arg.rc_m))
  => /\ out.ok
     /\ Unwrap(out.ret) = <<Unwrap(c_data).csk.balance,
                            Unwrap(c_data).csk.merchant_balance>>

\* C9: resolve, run on the closure of a wallet retired by a completed round,
\* with the refund token of that wallet, and on the merchant closure that
\* carries the token recorded for its wpk, returns nothing to the customer
\* and to the merchant the sum of the customer's and the merchant's current
\* balances.
C9_StaleCloseGivesAllToMerchant ==
  (/\ out.op = "resolve"
   /\ ~IsNone(out.arg.rt_w)
   /\ Unwrap(closing).c.csk.wpk \in Range(sig_log)
   /\ Unwrap(closing).c # Unwrap(c_data)
   /\ ~IsNone(out.arg.rc_m)
   /\ Unwrap(Unwrap(out.arg.rc_m).message.sig)
        = secp_sign(hash_to_slice([msgtype |-> "revoked",
                                   wpk |-> Unwrap(closing).c.csk.wpk]),
                    Unwrap(closing).c.csk.wpk))
  => /\ out.ok
     /\ Unwrap(out.ret) = <<0, Unwrap(c_data).csk.balance
                                 + Unwrap(m_data).csk.balance>>

\* C10: merchant_refute returns a closure only for a token that verifies as
\* a revocation of the wpk in the customer's closure, and a customer who
\* closes with the latest wallet, whose wpk is not revoked, and has a
\* positive balance does not get nothing from a resolve that reaches the
\* merchant closure.
C10_RefuteNeedsValidToken ==
  /\ (out.op = "merchant_refute" /\ out.ok)
     => secp_verify(hash_to_slice([msgtype |-> "revoked",
                                   wpk |-> Unwrap(rc_c).message.wpk]),
                    out.arg.rv_token, Unwrap(rc_c).message.wpk)
  /\ (/\ out.op = "resolve"
      /\ out.ok
      /\ Unwrap(closing).c = Unwrap(c_data)
      /\ out.arg.c = Unwrap(c_data)
      /\ Unwrap(c_data).csk.wpk \notin Range(sig_log)
      /\ Unwrap(c_data).csk.balance > 0
      /\ ~IsNone(out.arg.rc_m)
      /\ ~resolve(out.arg.c, Unwrap(m_data), out.arg.rc_c, None, out.arg.rt_w).ok)
     => Unwrap(out.ret)[1] # 0

\* C11: resolve returns a pair of balances whatever closure messages and
\* refund token it is given, and when the customer's closure is missing the
\* pair is nothing for the customer and the sum of the two balances for the
\* merchant.
C11_ResolveIsTotal ==
  (out.op = "resolve")
  => /\ out.ok
     /\ ~IsNone(out.ret)
     /\ IsNone(out.arg.rc_c)
        => Unwrap(out.ret) = <<0, out.arg.c.csk.balance + Unwrap(m_data).csk.balance>>

\* C12: on a channel without third-party support and without a fee, the two
\* balances that resolve returns for the customer data the customer stores
\* add up to the two balances agreed at opening, also when the customer
\* closes after pay_by_merchant_phase2 and before pay_by_customer_final.
C12_ResolveSumIsEscrow ==
  (/\ out.op = "resolve"
   /\ out.ok
   /\ ~channel.third_party
   /\ channel.tx_fee = 0
   /\ out.arg.c = Unwrap(c_data))
  => Unwrap(out.ret)[1] + Unwrap(out.ret)[2] = b0.cust + b0.merch

\* C13: a pay_by_merchant_phase1 call that fails leaves every field of the
\* channel state (keys, R, pay_init, channel_established, tx_fee) as it was
\* before the call.
C13_FailureLeavesStateUnchanged ==
  [][(/\ pc = "pay1"
      /\ out'.op = "pay_by_merchant_phase1"
      /\ ~out'.ok)
     => channel' = channel]_vars

\* C14: when pay_by_merchant_phase2 is given a revocation token that verifies
\* under the wpk of the proof and fails all the same, it returns no signature
\* and the channel state holds that token for that wpk.
C14_ValidTokenRecordedOnFailure ==
  (/\ out.op = "pay_by_merchant_phase2"
   /\ ~out.ok
   /\ secp_verify(hash_to_slice(out.arg.rv.message), out.arg.rv.signature,
                  out.arg.proof.wpk))
  => LET fingerprint == compute_pub_key_fingerprint(out.arg.proof.wpk)
     IN /\ IsNone(out.ret)
        /\ fingerprint \in DOMAIN channel.keys
        /\ channel.keys[fingerprint].revoke_token = Some(out.arg.rv.signature)

\* C15: no step of Pay, Close or Refute removes an entry of the channel
\* state's keys, and an entry that holds a revocation token keeps its wpk and
\* that token.
C15_RevocationMapOnlyGrows ==
  [][\A f \in DOMAIN channel.keys :
       /\ f \in DOMAIN channel'.keys
       /\ ~IsNone(channel.keys[f].revoke_token)
          => channel'.keys[f] = channel.keys[f]]_vars

\* C16: on a channel without fee, with or without third-party support,
\* pay_by_merchant_phase1 accepts the proof of an honest payment exactly when
\* the increment the customer pays lies between -E_MAX and E_MAX.
C16_IncrementRangeEnforced ==
  [][(/\ pc = "pay1"
      /\ out'.op = "pay_by_merchant_phase1"
      /\ channel.tx_fee = 0)
     => (out'.ok <=> (eps >= 0 - E_MAX /\ eps <= E_MAX))]_vars

\* C17 as stated: with the precomputed proof in the wallet,
\* pay_by_customer_phase1 refuses exactly when the customer's balance minus
\* the increment and the fee is below 0.
C17_RefusesExactlyBelowZero ==
  (out.op = "pay_by_customer_phase1" /\ ~IsNone(Unwrap(c_data).csk.proof))
  => (out.ok <=> Unwrap(c_data).csk.balance - out.arg.balance_increment
                   - channel.tx_fee >= 0)

\* C17 amended: pay_by_customer_phase1 refuses, and then leaves no new
\* wallet and no proof, exactly when the wallet has no precomputed proof, or
\* the customer's balance minus the increment and the fee is below 0, or the
\* channel token is a third-party one and increment plus fee is below -E_MAX;
\* otherwise, also when the result is exactly 0, it returns a new wallet with
\* that balance and a proof.
C17_RefusesBelowZeroOrBeyondRange ==
  (out.op = "pay_by_customer_phase1")
  => LET w == Unwrap(c_data).csk
         t == Unwrap(c_data).channel_token
         final_balance_increment == out.arg.balance_increment + channel.tx_fee
         updated_balance == w.balance - final_balance_increment
         refused == \/ IsNone(w.proof)
                    \/ updated_balance < 0
                    \/ t.third_party_pay /\ final_balance_increment < 0 - E_MAX
     IN /\ out.ok <=> ~refused
        /\ out.ok => /\ pc = "pay1"
                     /\ Unwrap(new_w).balance = updated_balance
                     /\ ~IsNone(pay_proof)
                     /\ ~IsNone(new_t)
        /\ ~out.ok => /\ pc = "established"
                      /\ IsNone(new_w) /\ IsNone(pay_proof) /\ IsNone(new_t)

\* a payment that takes the customer's balance to exactly 0 has produced a
\* new wallet
C17_Witness ==
  /\ out.op = "pay_by_customer_phase1"
  /\ out.ok
  /\ Unwrap(c_data).csk.balance > 0
  /\ Unwrap(new_w).balance = 0
  /\ Unwrap(c_data).csk.balance - out.arg.balance_increment - channel.tx_fee = 0

\* C18: on a channel with a fee the merchant accepts the proof of the first
\* honest payment, and after the first completed round the customer's
\* balance has gone down, and the merchant's balance up, by the increment
\* plus the fee.
C18_FeePayCompletes ==
  /\ (/\ out.op = "pay_by_merchant_phase1"
      /\ channel.tx_fee > 0
      /\ rt_log = <<>>)
     => out.ok
  /\ (/\ pc = "established"
      /\ ~deviated
      /\ channel.tx_fee > 0
      /\ Len(paid) = 1)
     => /\ Unwrap(c_data).csk.balance = b0.cust - (paid[1] + channel.tx_fee)
        /\ Unwrap(m_data).csk.balance = b0.merch + (paid[1] + channel.tx_fee)

\* C19: verify_third_party_payment panics unless both balance proofs are
\* marked third-party; otherwise it returns TRUE exactly when the PoK and the
\* range proof of each committed increment verify and the increment plus
\* channel fee of the one payment and that of the other add up to the fee
\* passed in.
C19_ThirdPartyPaymentVerdict ==
  (out.op = "verify_third_party_payment")
  => LET a == out.arg
     IN IF a.proof1.third_party /\ a.proof2.third_party
        THEN /\ out.ok
             /\ Unwrap(out.ret)
                <=> /\ bs_verify_nizk_proof(Unwrap(a.proof1.proof_vcom))
                    /\ bs_verify_nizk_proof(Unwrap(a.proof2.proof_vcom))
                    /\ range_verify(Unwrap(a.proof1.proof_vrange))
                    /\ range_verify(Unwrap(a.proof2.proof_vrange))
                    /\ (a.e1 + a.f1) + (a.e2 + a.f2) = a.fee
        ELSE ~out.ok /\ IsNone(out.ret)

\* a payment of e on one channel and of -e on the other, with a fee on each,
\* is found valid for the sum of the two fees
C19_Witness ==
  /\ out.op = "verify_third_party_payment"
  /\ out.ok
  /\ Unwrap(out.ret)
  /\ out.arg.e1 # 0
  /\ out.arg.e2 = 0 - out.arg.e1
  /\ out.arg.f1 > 0 /\ out.arg.f2 > 0
  /\ out.arg.fee = out.arg.f1 + out.arg.f2

\* C20: pay_by_merchant_phase1 run on a channel state whose
\* channel_established is FALSE is rejected: it returns no refund token and
\* records nothing.
C20_RejectedBeforeEstablish ==
  (/\ out.op = "pay_by_merchant_phase1"
   /\ "state" \in DOMAIN out.arg
   /\ ~out.arg.state.channel_established)
  => /\ ~out.ok
     /\ IsNone(out.ret.rt_w)
     /\ out.ret.state = out.arg.state

\* C21: pay_by_merchant_phase2 returns a signature for a proof only when
\* pay_by_merchant_phase1 has answered a proof revealing the same wpk with a
\* refund token on this channel.
C21_Phase2OnlyAfterPhase1 ==
  (out.op = "pay_by_merchant_phase2" /\ out.ok)
  => out.arg.proof.wpk \in Range(rt_log)

\* C22: establish_merchant_phase2 returns the signature on the initial wallet
\* and marks the channel established only when the balance the customer's
\* proof opens the wallet commitment to is the customer balance agreed for
\* the channel.
C22_SignatureOnlyForAgreedBalances ==
  (out.op = "establish_merchant_phase2" /\ out.ok)
  => out.arg.proof.x[3] = convert_int_to_fr(b0.cust)

\* C23: the closure of customer_refund is of type "refundUnsigned" and
\* carries the randomness of the wallet when no payment has started on the
\* channel; otherwise it is of type "refundToken" and, for a wallet the
\* merchant has issued a refund token for, carries that token.
C23_ClosureCarriesRefundToken ==
  (out.op = "customer_refund" /\ pc = "cust_closed")
  => LET m == Unwrap(rc_c).message
         h == Unwrap(closing)
     IN IF ~channel.pay_init
        THEN /\ m.msgtype = "refundUnsigned"
             /\ m.r = Some(h.c.csk.r)
        ELSE /\ m.msgtype = "refundToken"
             /\ ~IsNone(h.rt) => m.rt = h.rt

\* C24: when the customer closes after pay_by_merchant_phase1 and before
\* pay_by_customer_phase2, resolve, run on the data and refund token of the
\* wallet it closed with, returns to the customer the balance of that
\* wallet: the old balance for the old wallet, the new one for the new.
C24_StoppedRoundCloseKeepsBalance ==
  (/\ out.op = "resolve"
   /\ ~IsNone(rt_w) /\ IsNone(rv_w)
   /\ out.arg.c = Unwrap(closing).c)
  => /\ out.ok
     /\ Unwrap(out.ret)[1] = Unwrap(closing).c.csk.balance

\* C25: pay_by_customer_final, given a signature that does not verify on the
\* contents of the new wallet under the merchant's key, returns false and
\* leaves the customer's stored wallet and channel token as they were, with
\* either setting of extra_verify.
C25_InvalidSignatureNotAdopted ==
  (out.op = "pay_by_customer_final")
  => LET w == out.arg.new_w
         x == <<w.r, w.cid, convert_int_to_fr(w.balance), hash_pub_key_to_fr(w.wpk)>>
     IN ~verify_d(MerchKeys, x, out.arg.sig)
        => /\ out.ok
           /\ out.ret = Some(FALSE)
           /\ Unwrap(c_data) = out.arg.c_data

\* C26 (as stated): pay_by_customer_phase1, pay_by_customer_phase2,
\* customer_refund and resolve change neither the channel state nor the
\* customer's stored wallet, channel token and refund token nor the
\* merchant's data; in the Pay protocol the channel state changes only in
\* pay_by_merchant_phase1 and pay_by_merchant_phase2, and the customer's
\* stored wallet changes only in pay_by_customer_final.
C26_StoredWalletChangesOnlyInFinal ==
  [][/\ ((\E e \in EpsValues : PayByCustomerPhase1(e)) \/ PayByCustomerPhase2
           \/ CustomerRefund \/ Resolve)
        => UNCHANGED <<channel, c_data, c_rt, m_data>>
     /\ (pc \in {"established", "pay1", "pay2", "pay3", "pay4"} /\ channel' # channel)
        => (PayByMerchantPhase1 \/ PayByMerchantPhase2)
     /\ (pc \in {"established", "pay1", "pay2", "pay3", "pay4"} /\ c_data' # c_data)
        => PayByCustomerFinal]_vars

\* C26 (amended): the same, except that the customer's stored wallet changes
\* in pay_by_customer_phase1_precompute, which stores the proof of knowledge
\* of the wallet's signature in it, and in pay_by_customer_final, and in no
\* other step of Pay; pay_by_customer_phase1_precompute changes no field of
\* the wallet but the stored proof.
C26_PureOperationsAndWriters ==
  [][/\ ((\E e \in EpsValues : PayByCustomerPhase1(e)) \/ PayByCustomerPhase2
           \/ CustomerRefund \/ Resolve)
        => UNCHANGED <<channel, c_data, c_rt, m_data>>
     /\ (pc \in {"established", "pay1", "pay2", "pay3", "pay4"} /\ channel' # channel)
        => (PayByMerchantPhase1 \/ PayByMerchantPhase2)
     /\ (pc \in {"established", "pay1", "pay2", "pay3", "pay4"} /\ c_data' # c_data)
        => \/ PayByCustomerFinal
           \/ /\ PayByCustomerPhase1Precompute
              /\ [Unwrap(c_data') EXCEPT !.csk.proof = None]
                   = [Unwrap(c_data) EXCEPT !.csk.proof = None]]_vars

\* a close is resolved after a completed round and a second precompute
C26_Witness ==
  /\ out.op = "resolve"
  /\ out.ok
  /\ Len(paid) > 0
  /\ ~IsNone(Unwrap(c_data).csk.proof)

\* C27: with parameters from setup(a, b), prove(x) for a <= x <= b returns a
\* proof that verify accepts, and prove(x) for x < a or x > b refuses.
C27_RangeProofAcceptsExactlyTheRange ==
  /\ (out.op = "range_prove" /\ (out.arg.x < out.arg.a \/ out.arg.x > out.arg.b))
     => ~out.ok
  /\ (out.op = "range_prove" /\ out.arg.a <= out.arg.x /\ out.arg.x <= out.arg.b)
     => out.ok
  /\ (out.op = "range_verify" /\ out.arg.a <= out.arg.x /\ out.arg.x <= out.arg.b)
     => out.ret = Some(TRUE)

\* C28: for an old wallet signed by the merchant and a new wallet with the
\* same pkc, a new wpk and the balances B_c - epsilon and B_m + epsilon, both
\* within the range of a balance, prove returns a proof and verify, called
\* with epsilon, the new wallet's commitment and the old wpk, returns true,
\* for positive and negative epsilon, with and without the close slot.
C28_HonestProofVerifies ==
  /\ (/\ out.op = "nizk_prove"
      /\ out.arg.pkc2 = out.arg.pkc
      /\ out.arg.bc2 = out.arg.bc - out.arg.epsilon
      /\ out.arg.bm2 = out.arg.bm + out.arg.epsilon
      /\ out.arg.bc2 \in BalanceValues /\ out.arg.bm2 \in BalanceValues)
     => out.ok
  /\ (/\ out.op = "nizk_verify"
      /\ out.arg.in.pkc2 = out.arg.in.pkc
      /\ out.arg.in.bc2 = out.arg.in.bc - out.arg.in.epsilon
      /\ out.arg.in.bm2 = out.arg.in.bm + out.arg.in.epsilon
      /\ out.arg.epsilon = out.arg.in.epsilon
      /\ out.arg.com = CSMultiParams_commit(as_fr_vec(NizkNewWallet(out.arg.in)), NizkRPrime)
      /\ out.arg.wpk = OldWpk)
     => out.ret = Some(TRUE)

\* C29: verify, called with epsilon, returns false for a proof built from a
\* new wallet whose customer balance is not the old one minus epsilon, or
\* whose merchant balance is not the old one plus epsilon, or whose pkc is
\* not the old pkc.
C29_BrokenLinkRejected ==
  (/\ out.op = "nizk_verify"
   /\ \/ out.arg.in.bc2 # out.arg.in.bc - out.arg.epsilon
      \/ out.arg.in.bm2 # out.arg.in.bm + out.arg.epsilon
      \/ out.arg.in.pkc2 # out.arg.in.pkc)
  => out.ret = Some(FALSE)

\* a proof whose only flaw is the merchant's balance, with both balances
\* inside the range, is checked on its own epsilon, commitment and wpk
C29_Witness ==
  /\ out.op = "nizk_verify"
  /\ out.arg.in.bm2 # out.arg.in.bm + out.arg.in.epsilon
  /\ out.arg.in.bc2 = out.arg.in.bc - out.arg.in.epsilon
  /\ out.arg.in.pkc2 = out.arg.in.pkc
  /\ out.arg.in.bc2 < NizkMaxBalance /\ out.arg.in.bm2 < NizkMaxBalance
  /\ out.arg.epsilon = out.arg.in.epsilon
  /\ out.arg.com = CSMultiParams_commit(as_fr_vec(NizkNewWallet(out.arg.in)), NizkRPrime)
  /\ out.arg.wpk = OldWpk
  /\ out.ret = Some(FALSE)

\* C30: for a proof built from a new wallet that is linked to the old one,
\* verify returns false when it is called with another epsilon, with another
\* commitment or with another wpk than the proof was built for, each
\* changed alone.
C30_OtherPublicInputRejected ==
  (/\ out.op = "nizk_verify"
   /\ out.arg.in.bc2 = out.arg.in.bc - out.arg.in.epsilon
   /\ out.arg.in.bm2 = out.arg.in.bm + out.arg.in.epsilon
   /\ out.arg.in.pkc2 = out.arg.in.pkc
   /\ LET e == out.arg.epsilon # out.arg.in.epsilon
          c == out.arg.com # CSMultiParams_commit(as_fr_vec(NizkNewWallet(out.arg.in)),
                                                  NizkRPrime)
          w == out.arg.wpk # OldWpk
      IN \/ e /\ ~c /\ ~w
         \/ ~e /\ c /\ ~w
         \/ ~e /\ ~c /\ w)
  => out.ret = Some(FALSE)

\* a linked proof with both balances inside the range is checked with
\* another wpk and its own epsilon and commitment
C30_Witness ==
  /\ out.op = "nizk_verify"
  /\ out.arg.in.bc2 = out.arg.in.bc - out.arg.in.epsilon
  /\ out.arg.in.bm2 = out.arg.in.bm + out.arg.in.epsilon
  /\ out.arg.in.pkc2 = out.arg.in.pkc
  /\ out.arg.in.bc2 < NizkMaxBalance /\ out.arg.in.bm2 < NizkMaxBalance
  /\ out.arg.epsilon = out.arg.in.epsilon
  /\ out.arg.com = CSMultiParams_commit(as_fr_vec(NizkNewWallet(out.arg.in)), NizkRPrime)
  /\ out.arg.wpk = OtherWpk
  /\ out.ret = Some(FALSE)

\* C31: what the merchant receives in a payment does not depend on the
\* customer's hidden balance: when two honest customers pay the same
\* increment, whatever their wallets hold, the merchant-visible values of the
\* two proofs are the same.
C31_ViewIndependentOfBalance ==
  (pc = "compared") => out.arg.view1 = out.arg.view2

\* C32: every revocation token recorded in S.keys under a wpk verifies, under
\* that wpk, as a signature on the message "revoked" || wpk, whichever of
\* pay_by_merchant_phase2 and merchant_refute recorded it.
C32_RecordedTokensAreValid ==
  \A f \in DOMAIN channel.keys :
    ~IsNone(channel.keys[f].revoke_token)
    => secp_verify(hash_to_slice([msgtype |-> "revoked", wpk |-> channel.keys[f].wpk]),
                   Unwrap(channel.keys[f].revoke_token), channel.keys[f].wpk)

\* C33: on a channel on which no payment has started, the honest customer's
\* closure with its initial wallet passes the commitment-opening check of
\* the "refundUnsigned" branch of resolve: run without a merchant closure,
\* where that check is the only one that can give (0, total), resolve does not
\* return (0, total).
C33_InitialWalletOpensCommitment ==
  (/\ out.op = "resolve"
   /\ ~channel.pay_init
   /\ ~deviated
   /\ paid = <<>>
   /\ out.arg.c = Unwrap(c_data)
   /\ Unwrap(out.arg.rc_c).message.msgtype = "refundUnsigned"
   /\ IsNone(out.arg.rc_m))
  => ~(out.ok /\ Unwrap(out.ret) = <<0, Unwrap(c_data).csk.balance
                                        + Unwrap(m_data).csk.balance>>)

\* C34: the merchant's recorded balance changes once per accepted payment:
\* a second pay_by_merchant_phase2 with the same proof and revocation token
\* leaves the merchant's balance as the first call left it.
C34_RepeatedPhase2KeepsBalance ==
  (/\ out.op = "pay_by_merchant_phase2"
   /\ "balance" \in DOMAIN out.arg)
  => Unwrap(m_data).csk.balance = out.arg.balance

\* the wallets of the channel: the stored one, those kept from earlier
\* rounds, and the old and new wallet of the round in progress
ChannelWallets ==
  (IF IsNone(c_data) THEN {} ELSE {Unwrap(c_data).csk})
  \cup {h.c.csk : h \in retired} \cup Range(old_w) \cup Range(new_w)

C36_ProveUlRefusesOutsideRange ==
  (out.op = "prove_ul")
  => (out.ok <=> (0 <= out.arg.x /\ out.arg.x < out.arg.u ^ out.arg.l))

RECURSIVE Recompose(_, _, _)
\* sum for i < n of d[i] * u^i
Recompose(d, u, n) ==
  IF n = 0 THEN 0 ELSE Recompose(d, u, n - 1) + (d[n] * (u ^ (n - 1)))

\* C37: for u >= 2, l >= 1 and 0 <= x < u^l, decompose(x, u, l) returns
\* exactly l digits, each in [0, u), and the sum of d_i * u^i is x.
C37_DecomposeRecomposes ==
  (/\ out.op = "decompose"
   /\ out.arg.u >= 2 /\ out.arg.l >= 1
   /\ 0 <= out.arg.x /\ out.arg.x < out.arg.u ^ out.arg.l)
  => LET d == Unwrap(out.ret)
     IN /\ Len(d) = out.arg.l
        /\ \A i \in 1..Len(d) : 0 <= d[i] /\ d[i] < out.arg.u
        /\ Recompose(d, out.arg.u, Len(d)) = out.arg.x

\* decompose has run on the largest x of a range of more than one digit whose
\* digits are not all equal to the digits of a smaller base
C37_Witness ==
  /\ out.op = "decompose"
  /\ out.arg.u = 3 /\ out.arg.l = 2 /\ out.arg.x = 7
  /\ Unwrap(out.ret) = <<1, 2>>

C39_BalancesUpToTwoToThe31 ==
  /\ (out.op = "nizk_prove")
     => (out.ok <=> /\ 0 <= out.arg.bc2 /\ out.arg.bc2 <= (2 ^ 30 - 1) + 2 ^ 30
                    /\ 0 <= out.arg.bm2 /\ out.arg.bm2 <= (2 ^ 30 - 1) + 2 ^ 30)
  /\ (out.op = "nizk_verify") => Unwrap(out.ret)

====
